---- MODULE Spec2Model ----
(***************************************************************************)
(* Model of the river-network builder                                      *)
(* (src/build_pakistan_hydrological_network.py): the line exploder, the    *)
(* endpoint snapper, the segmenter and the graph assembler.                *)
(*                                                                         *)
(* Geometry is modelled on an integer lattice.  A point is <<x, y>>; a     *)
(* coordinate sequence is a sequence of points whose consecutive points    *)
(* differ in at most one coordinate (axis-parallel legs), so that every    *)
(* length and every point-to-line distance the code computes is an exact   *)
(* integer (distances are compared by their squares).  Arithmetic is       *)
(* exact: binary floating-point rounding is not modelled.                  *)
(*                                                                         *)
(* A geometry is a record [type, parts]: a LineString has one part (its    *)
(* coordinate sequence), a MultiLineString one part per member line, a     *)
(* Point one part of one coordinate, and the missing geometry (None) has   *)
(* type "None".                                                            *)
(***************************************************************************)
EXTENDS Integers, Sequences, FiniteSets, TLC

VARIABLES seg, snap, asm, expl, plan, rec, main, km, down

vars == <<seg, snap, asm, expl, plan, rec, main, km, down>>

(***************************************************************************)
(* Bounds of the model.                                                    *)
(***************************************************************************)
\* largest lattice x coordinate of an input vertex (y ranges over 0..1)
MaxCoord == 2
\* largest number of vertices of an input line
MaxVerts == 3
\* largest target segment length interval_km handed to segmentize_lines
MaxIntervalKm == 3

\* 1 degree ~ 111 km (interval_km / 111.0, geom.length * 111)
KmPerDegree == 111

Abs(n) == IF n < 0 THEN -n ELSE n

Min(a, b) == IF a <= b THEN a ELSE b

Max(a, b) == IF a >= b THEN a ELSE b

RECURSIVE Gcd(_, _)
Gcd(a, b) == IF b = 0 THEN a ELSE Gcd(b, a % b)

RECURSIVE LcmUpTo(_)
LcmUpTo(n) == IF n <= 1 THEN 1 ELSE (LcmUpTo(n - 1) * n) \div Gcd(LcmUpTo(n - 1), n)

\* longest input line, in lattice steps
MaxLineLen == (MaxVerts - 1) * Max(MaxCoord, 1)

\* Model units per lattice step, chosen so that L / n is a whole number of
\* units for every line length L and every segment count n that can occur.
Grid == LcmUpTo(MaxLineLen)

\* Coordinates and lengths are in units of 1 / UnitsPerDegree degree:
\* one lattice step is one kilometre under the code's 111 km per degree.
UnitsPerDegree == KmPerDegree * Grid

(***************************************************************************)
(* Geometry values (shapely).                                              *)
(***************************************************************************)
NoneGeom == [type |-> "None", parts |-> <<>>]

LineString(coords) == [type |-> "LineString", parts |-> <<coords>>]

MultiLineString(lines) == [type |-> "MultiLineString", parts |-> lines]

Point(p) == [type |-> "Point", parts |-> <<<<p>>>>]

\* geom.coords of a LineString or a Point
Coords(geom) == geom.parts[1]

\* length of one axis-parallel leg
LegLen(p, q) == Abs(q[1] - p[1]) + Abs(q[2] - p[2])

\* distance along coords from its first vertex to vertex k
RECURSIVE DistTo(_, _)
DistTo(coords, k) ==
    IF k <= 1 THEN 0 ELSE DistTo(coords, k - 1) + LegLen(coords[k - 1], coords[k])

\* geom.length
Length(geom) ==
    IF geom.type \in {"LineString"} /\ Len(Coords(geom)) >= 1
    THEN DistTo(Coords(geom), Len(Coords(geom)))
    ELSE 0

Sign(n) == IF n > 0 THEN 1 ELSE IF n < 0 THEN -1 ELSE 0

\* the point of leg p -> q at distance d from p
PointOnLeg(p, q, d) == <<p[1] + Sign(q[1] - p[1]) * d, p[2] + Sign(q[2] - p[2]) * d>>

\* geom.interpolate(d) for 0 <= d: the point at distance d along the line,
\* the last vertex when d reaches or passes the line's length
RECURSIVE InterpolateFrom(_, _, _)
InterpolateFrom(coords, k, d) ==
    IF k >= Len(coords) THEN coords[Len(coords)]
    ELSE IF d <= LegLen(coords[k], coords[k + 1])
         THEN PointOnLeg(coords[k], coords[k + 1], d)
         ELSE InterpolateFrom(coords, k + 1, d - LegLen(coords[k], coords[k + 1]))

Interpolate(geom, d) == InterpolateFrom(Coords(geom), 1, d)

\* shapely.ops.substring's vertex walk: the vertices p1 of the pairs
\* (p1, p2) whose distance from the start lies strictly between the cuts
RECURSIVE InnerVertices(_, _, _, _)
InnerVertices(coords, k, start_dist, end_dist) ==
    IF k >= Len(coords) THEN <<>>
    ELSE IF start_dist < DistTo(coords, k) /\ DistTo(coords, k) < end_dist
         THEN <<coords[k]>> \o InnerVertices(coords, k + 1, start_dist, end_dist)
         ELSE IF DistTo(coords, k) >= end_dist THEN <<>>
              ELSE InnerVertices(coords, k + 1, start_dist, end_dist)

SubstringEndsOnly(geom, start_dist, end_dist) ==
    LineString(<<Interpolate(geom, start_dist), Interpolate(geom, end_dist)>>)

\* shapely.ops.substring(geom, start_dist, end_dist), 0 <= start_dist <= end_dist
Substring(geom, start_dist, end_dist) ==
    IF start_dist = end_dist THEN Point(Interpolate(geom, start_dist))
    ELSE IF start_dist >= Length(geom) /\ end_dist >= Length(geom)
         THEN Point(Interpolate(geom, Length(geom)))
         ELSE LineString(<<Interpolate(geom, start_dist)>>
                         \o InnerVertices(Coords(geom), 1, start_dist, end_dist)
                         \o <<Interpolate(geom, end_dist)>>)

(***************************************************************************)
(* gpd.GeoDataFrame(rows, crs=crs) as called at the end of                 *)
(* explode_multilinestrings and segmentize_lines.  With no row there is no *)
(* geometry column; geopandas then either builds the empty frame (older    *)
(* releases, with a deprecation warning) or raises ValueError("Assigning   *)
(* CRS to a GeoDataFrame without a geometry column is not supported")      *)
(* when a CRS is passed.  Both outcomes are kept.                          *)
(***************************************************************************)
GeoDataFrameOutcomes(rows, crs) ==
    {"frame"} \cup (IF rows = <<>> /\ crs THEN {"ValueError"} ELSE {})

(***************************************************************************)
(* segmentize_lines                                                        *)
(***************************************************************************)
\* interval_deg = interval_km / 111.0, in model units
IntervalDeg(interval_km) == (interval_km * UnitsPerDegree) \div KmPerDegree

NumSegmentsFloor(line_length, interval_deg) == line_length \div interval_deg

\* num_segments = int(np.ceil(line_length / interval_deg))
NumSegments(line_length, interval_deg) ==
    (line_length + interval_deg - 1) \div interval_deg

SegmentLengthTarget(line_length, interval_deg) == interval_deg

\* segment_length = line_length / num_segments
SegmentLength(line_length, interval_deg) ==
    line_length \div NumSegments(line_length, interval_deg)

\* start_dist = i * segment_length
StartDist(i, segment_length) == i * segment_length

\* end_dist = (i + 1) * segment_length, clamped to the line's length
EndDist(i, segment_length, line_length) ==
    IF (i + 1) * segment_length > line_length
    THEN line_length
    ELSE (i + 1) * segment_length

\* The cuts of one row: <<start_dist, end_dist>> for each i in range(num_segments);
\* no cut for a row that is skipped or kept whole.
RowCuts(geom, interval_deg) ==
    IF geom.type # "LineString" \/ Length(geom) <= interval_deg THEN <<>>
    ELSE [j \in 1..NumSegments(Length(geom), interval_deg) |->
             <<StartDist(j - 1, SegmentLength(Length(geom), interval_deg)),
               EndDist(j - 1, SegmentLength(Length(geom), interval_deg), Length(geom))>>]

\* The body of the loop over the rows: the rows appended to new_lines for one row.
SegmentizeRow(row, interval_deg) ==
    IF row.geometry.type = "None" THEN <<>>
    ELSE IF row.geometry.type # "LineString" THEN <<>>
    ELSE IF Length(row.geometry) <= interval_deg
         THEN <<[river_name |-> row.river_name, geometry |-> row.geometry]>>
         ELSE [j \in 1..Len(RowCuts(row.geometry, interval_deg)) |->
                  [river_name |-> row.river_name,
                   geometry |-> Substring(row.geometry,
                                          RowCuts(row.geometry, interval_deg)[j][1],
                                          RowCuts(row.geometry, interval_deg)[j][2])]]

\* Inputs of the segmenter: axis-parallel lines over the lattice.
LatticePoints == {<<x * Grid, y * Grid>> : x \in 0..MaxCoord, y \in 0..1}

AxisParallel(p, q) == p[1] = q[1] \/ p[2] = q[2]

LatticePaths(n) ==
    {c \in [1..n -> LatticePoints] : \A k \in 1..(n - 1) : AxisParallel(c[k], c[k + 1])}

LatticeLines == UNION {{LineString(c) : c \in LatticePaths(n)} : n \in 2..MaxVerts}

SegTestRows == {[river_name |-> "Indus", geometry |-> g] : g \in LatticeLines}

SegFillerRows ==
    {[river_name |-> "Jhelum", geometry |-> g] :
        g \in {NoneGeom, Point(<<0, 0>>), LineString(<<<<0, 0>>, <<Grid, 0>>, <<Grid, Grid>>>>)}}

SegInputs ==
    {<<>>} \cup {<<r>> : r \in SegTestRows \cup SegFillerRows}
    \cup {<<f, r>> : f \in SegFillerRows, r \in SegTestRows}
    \cup {<<r, f>> : f \in SegFillerRows, r \in SegTestRows}

SnapIdle ==
    [pc |-> "idle", lines_gdf |-> <<>>, river_name |-> <<>>, pre |-> <<>>, sindex |-> <<>>,
     tolerance |-> 0, i |-> 1, new_geoms |-> <<>>, snapped_count |-> 0, targets |-> <<>>]

AsmIdle ==
    [pc |-> "idle", lines_gdf |-> <<>>, idx |-> 1, G_nodes |-> <<>>, G_edges |-> <<>>,
     node_data |-> <<>>, edge_data |-> <<>>, seen_nodes |-> {}]

ExplIdle ==
    [pc |-> "idle", gdf |-> <<>>, crs |-> FALSE, has_name_en |-> FALSE, idx |-> 1,
     lines |-> <<>>, origin |-> <<>>]

PlanIdle ==
    [pc |-> "idle", lines_gdf |-> <<>>,
     merged |-> [type |-> "GeometryCollection", edges |-> {}, nodes |-> {},
                              empties |-> {"GeometryCollection"}],
     new_lines |-> <<>>]

RecIdle ==
    [pc |-> "idle", planarized |-> <<>>, gdf |-> <<>>, i |-> 1, joined |-> <<>>,
     result |-> <<>>]

MainIdle ==
    [pc |-> "idle", file |-> "ok", input |-> <<>>, has_name_en |-> TRUE, crs |-> TRUE,
     tolerance |-> 0, interval_km |-> 1, gdf |-> <<>>, exploded |-> <<>>, snapped |-> <<>>,
     planarized |-> <<>>, recovered |-> <<>>, segmented |-> <<>>,
     graph |-> [G_nodes |-> <<>>, G_edges |-> <<>>, node_data |-> <<>>, edge_data |-> <<>>,
                seen_nodes |-> {}],
     written |-> {}, trace |-> <<>>, diagnostic |-> FALSE, status |-> "running"]

KmIdle ==
    [pc |-> "idle", interval_km |-> 1, line_length |-> 0, interval_deg |-> 0,
     num_segments |-> 0, segment_length |-> 0, i |-> 0, lengths |-> <<>>, length_km |-> <<>>]

DownIdle ==
    [script |-> "none", pc |-> "idle", files |-> "ok", nodes_df |-> <<>>, edges_df |-> <<>>,
     river_edges |-> <<>>, existing |-> {}, next_id |-> 0, count |-> 0, i |-> 1, j |-> 2,
     added |-> <<>>, final_df |-> <<>>, nodes_list |-> <<>>, corr |-> {}, written |-> FALSE,
     run |-> 0, updated_count |-> 0, versions |-> <<>>]

SegIdle ==
    [pc |-> "idle", gdf |-> <<>>, crs |-> FALSE, interval_km |-> 1, idx |-> 1,
     new_lines |-> <<>>, origin |-> <<>>, cuts |-> <<>>]

\* idx is the loop position; origin and cuts record, for each appended row,
\* the input row it was cut from and the cut distances handed to substring.
SegInit ==
    /\ down = DownIdle
    /\ km = KmIdle
    /\ main = MainIdle
    /\ rec = RecIdle
    /\ plan = PlanIdle
    /\ snap = SnapIdle
    /\ asm = AsmIdle
    /\ expl = ExplIdle
    /\ seg \in {[pc |-> "loop", gdf |-> rows, crs |-> c, interval_km |-> t, idx |-> 1,
              new_lines |-> <<>>, origin |-> <<>>, cuts |-> <<>>] :
                 rows \in SegInputs, c \in BOOLEAN, t \in 1..MaxIntervalKm}

SegmentizeStep ==
    /\ seg.pc = "loop"
    /\ seg.idx <= Len(seg.gdf)
    /\ LET out == SegmentizeRow(seg.gdf[seg.idx], IntervalDeg(seg.interval_km))
           cut == RowCuts(seg.gdf[seg.idx].geometry, IntervalDeg(seg.interval_km))
       IN seg' = [seg EXCEPT
                    !.idx = @ + 1,
                    !.new_lines = @ \o out,
                    !.origin = @ \o [j \in 1..Len(out) |-> seg.idx],
                    !.cuts = @ \o [j \in 1..Len(out) |->
                                      IF cut = <<>> THEN <<>> ELSE cut[j]]]
    /\ UNCHANGED <<snap, asm, expl, plan, rec, main, km, down>>

SegmentizeReturn ==
    /\ seg.pc = "loop"
    /\ seg.idx > Len(seg.gdf)
    /\ "frame" \in GeoDataFrameOutcomes(seg.new_lines, seg.crs)
    /\ seg' = [seg EXCEPT !.pc = "done"]
    /\ UNCHANGED <<snap, asm, expl, plan, rec, main, km, down>>

SegmentizeRaise ==
    /\ seg.pc = "loop"
    /\ seg.idx > Len(seg.gdf)
    /\ "ValueError" \in GeoDataFrameOutcomes(seg.new_lines, seg.crs)
    /\ seg' = [seg EXCEPT !.pc = "raised"]
    /\ UNCHANGED <<snap, asm, expl, plan, rec, main, km, down>>

SegNext == SegmentizeStep \/ SegmentizeReturn \/ SegmentizeRaise

SpecSeg == SegInit /\ [][SegNext]_vars

(***************************************************************************)
(* snap_endpoints                                                          *)
(***************************************************************************)
\* largest lattice coordinate of a vertex handed to the snapper
MaxSnapCoord == 1
\* largest snapping tolerance, in lattice steps
MaxTol == 2

\* a geometry with at least one coordinate (a Point has exactly one)
HasCoords(geom) == geom.type \in {"LineString", "Point"} /\ Len(Coords(geom)) >= 1

SetMin(S) == CHOOSE v \in S : \A w \in S : v <= w

SetMax(S) == CHOOSE v \in S : \A w \in S : v >= w

\* geom.bounds
Bounds(geom) ==
    [minx |-> SetMin({Coords(geom)[k][1] : k \in 1..Len(Coords(geom))}),
     maxx |-> SetMax({Coords(geom)[k][1] : k \in 1..Len(Coords(geom))}),
     miny |-> SetMin({Coords(geom)[k][2] : k \in 1..Len(Coords(geom))}),
     maxy |-> SetMax({Coords(geom)[k][2] : k \in 1..Len(Coords(geom))})]

\* end_point.buffer(tolerance).bounds
BufferBounds(p, tolerance) ==
    [minx |-> p[1] - tolerance, maxx |-> p[1] + tolerance,
     miny |-> p[2] - tolerance, maxy |-> p[2] + tolerance]

BoxesIntersect(a, b) ==
    /\ a.minx <= b.maxx /\ b.minx <= a.maxx
    /\ a.miny <= b.maxy /\ b.miny <= a.maxy

\* sindex.intersection(box): the positions of the indexed lines whose bounding
\* box meets the box.  The index holds the geometries the frame had when
\* the index was built; missing and empty geometries are not indexed.
SindexIntersection(geoms, box) ==
    {j \in 1..Len(geoms) : HasCoords(geoms[j]) /\ BoxesIntersect(Bounds(geoms[j]), box)}

Clamp(v, a, b) == IF v < Min(a, b) THEN Min(a, b) ELSE IF v > Max(a, b) THEN Max(a, b) ELSE v

\* the point of the axis-parallel leg a -> b nearest to p
NearestOnLeg(p, a, b) == <<Clamp(p[1], a[1], b[1]), Clamp(p[2], a[2], b[2])>>

PointDistSq(p, q) == (p[1] - q[1]) * (p[1] - q[1]) + (p[2] - q[2]) * (p[2] - q[2])

\* geom.distance(point), squared
DistSq(geom, p) ==
    IF Len(Coords(geom)) = 1 THEN PointDistSq(p, Coords(geom)[1])
    ELSE SetMin({PointDistSq(p, NearestOnLeg(p, Coords(geom)[k], Coords(geom)[k + 1])) :
                    k \in 1..(Len(Coords(geom)) - 1)})

\* geom.project(point): the distance along the line of its point nearest to
\* point (the first such point along the line)
Project(geom, p) ==
    LET c == Coords(geom)
        k == SetMin({j \in 1..(Len(c) - 1) :
                        PointDistSq(p, NearestOnLeg(p, c[j], c[j + 1])) = DistSq(geom, p)})
    IN DistTo(c, k) + LegLen(c[k], NearestOnLeg(p, c[k], c[k + 1]))

NeverSelf(idx, i) == FALSE

\* if idx == i: continue
IsSelf(idx, i) == idx = i

RECURSIVE ScanMatchesLastWins(_, _, _, _, _, _)
ScanMatchesLastWins(geoms, order, k, i, end_point, best) ==
    IF k > Len(order) THEN best
    ELSE IF IsSelf(order[k], i) THEN ScanMatchesLastWins(geoms, order, k + 1, i, end_point, best)
    ELSE IF geoms[order[k]].type = "None"
         THEN ScanMatchesLastWins(geoms, order, k + 1, i, end_point, best)
    ELSE IF DistSq(geoms[order[k]], end_point) < best.dist_sq
            \/ (best.target # 0 /\ DistSq(geoms[order[k]], end_point) = best.dist_sq)
         THEN ScanMatchesLastWins(geoms, order, k + 1, i, end_point,
                                  [dist_sq |-> DistSq(geoms[order[k]], end_point),
                                   target |-> order[k]])
         ELSE ScanMatchesLastWins(geoms, order, k + 1, i, end_point, best)

\* The loop over possible_matches, taken in the order the index returned them:
\* best is [dist_sq |-> nearest_dist squared, target |-> position of snap_target
\* (0 for None)].
RECURSIVE ScanMatches(_, _, _, _, _, _)
ScanMatches(geoms, order, k, i, end_point, best) ==
    IF k > Len(order) THEN best
    ELSE IF IsSelf(order[k], i) THEN ScanMatches(geoms, order, k + 1, i, end_point, best)
    ELSE IF geoms[order[k]].type = "None"
         THEN ScanMatches(geoms, order, k + 1, i, end_point, best)
    ELSE IF DistSq(geoms[order[k]], end_point) < best.dist_sq
         THEN ScanMatches(geoms, order, k + 1, i, end_point,
                          [dist_sq |-> DistSq(geoms[order[k]], end_point), target |-> order[k]])
         ELSE ScanMatches(geoms, order, k + 1, i, end_point, best)

\* the sequences that list the members of S once each
Orderings(S) ==
    {f \in [1..Cardinality(S) -> S] : \A a, b \in 1..Cardinality(S) : f[a] = f[b] => a = b}

\* coords[-1]
EndPoint(geom) == Coords(geom)[Len(Coords(geom))]

\* The body of the loop over the rows for row i, the index returning its
\* candidates in the given order: [new_geom, target].
SnapRowAllMoved(geoms, i, tolerance, order) ==
    IF geoms[i].type = "None" THEN [new_geom |-> geoms[i], target |-> 0]
    ELSE IF Len(Coords(geoms[i])) = 0 THEN [new_geom |-> geoms[i], target |-> 0]
    ELSE LET end_point == EndPoint(geoms[i])
             best == ScanMatches(geoms, order, 1, i, end_point,
                                 [dist_sq |-> tolerance * tolerance, target |-> 0])
         IN IF best.target # 0
            THEN [new_geom |->
                     LineString([k \in 1..Len(Coords(geoms[i])) |->
                                    Interpolate(geoms[best.target],
                                                Project(geoms[best.target], end_point))]),
                  target |-> best.target]
            ELSE [new_geom |-> geoms[i], target |-> 0]

SnapRow(geoms, i, tolerance, order) ==
    IF geoms[i].type = "None" THEN [new_geom |-> geoms[i], target |-> 0]
    ELSE IF Len(Coords(geoms[i])) = 0 THEN [new_geom |-> geoms[i], target |-> 0]
    ELSE LET end_point == EndPoint(geoms[i])
             best == ScanMatches(geoms, order, 1, i, end_point,
                                 [dist_sq |-> tolerance * tolerance, target |-> 0])
         IN IF best.target # 0
            THEN [new_geom |->
                     LineString(SubSeq(Coords(geoms[i]), 1, Len(Coords(geoms[i])) - 1)
                                \o <<Interpolate(geoms[best.target],
                                                 Project(geoms[best.target], end_point))>>),
                  target |-> best.target]
            ELSE [new_geom |-> geoms[i], target |-> 0]

\* possible_matches_index of row i
PossibleMatches(geoms, i, tolerance) ==
    IF HasCoords(geoms[i])
    THEN SindexIntersection(geoms, BufferBounds(EndPoint(geoms[i]), tolerance))
    ELSE {}

SnapPoints == {<<x * Grid, y * Grid>> : x \in 0..MaxSnapCoord, y \in 0..1}

SnapGeoms ==
    {LineString(c) : c \in {d \in [1..2 -> SnapPoints] : AxisParallel(d[1], d[2])}}
    \cup {NoneGeom, LineString(<<>>)}

\* A geometry with a single coordinate lying on a line whose own end is not
\* within any tolerance of it, alone or next to a line far from it.
SnapOneVertexInputs ==
    {<<Point(<<0, 0>>), LineString(<<<<0, 0>>, <<MaxTol * Grid, 0>>>>)>>,
     <<LineString(<<<<0, 0>>, <<MaxTol * Grid, 0>>>>), Point(<<0, 0>>)>>,
     <<Point(<<0, 0>>)>>,
     <<Point(<<0, 0>>), LineString(<<<<0, MaxTol * Grid>>, <<MaxTol * Grid, MaxTol * Grid>>>>)>>}

\* a line with an inner vertex
SnapLongGeoms == {LineString(<<<<0, 0>>, <<0, Grid>>, <<Grid, Grid>>>>)}

SnapInputs ==
    {<<a>> : a \in SnapGeoms}
    \cup {<<a, b>> : a \in SnapGeoms, b \in SnapGeoms}
    \cup {<<a, b, c>> : a \in SnapGeoms, b \in SnapGeoms, c \in SnapGeoms}
    \cup {<<l, b>> : l \in SnapLongGeoms, b \in SnapGeoms}
    \cup {<<b, l, e>> : l \in SnapLongGeoms, b \in SnapGeoms, e \in {NoneGeom, LineString(<<>>)}}
    \cup SnapOneVertexInputs

\* the river_name column of a frame of n lines
SnapNames(n) == SubSeq(<<"Indus", "Jhelum", "Chenab">>, 1, n)

\* lines_gdf is the geometry column of the frame passed in (and returned),
\* river_name its other column;
\* pre keeps the geometries it had at the call; targets records the position
\* of each row's snap_target (0 for None).
SnapInit ==
    /\ down = DownIdle
    /\ km = KmIdle
    /\ main = MainIdle
    /\ rec = RecIdle
    /\ plan = PlanIdle
    /\ seg = SegIdle
    /\ asm = AsmIdle
    /\ expl = ExplIdle
    /\ snap \in {[pc |-> "loop", lines_gdf |-> g, river_name |-> SnapNames(Len(g)),
                  pre |-> g, sindex |-> g,
                  tolerance |-> t * Grid, i |-> 1, new_geoms |-> <<>>,
                  snapped_count |-> 0, targets |-> <<>>] :
                     g \in SnapInputs, t \in 1..MaxTol}

SnapReadsUpdated ==
    [k \in 1..Len(snap.lines_gdf) |->
        IF k <= Len(snap.new_geoms) THEN snap.new_geoms[k] ELSE snap.lines_gdf[k]]

\* the geometries the loop reads: row.geometry and match_row.geometry come
\* from lines_gdf, which is assigned only after the loop
SnapReads == snap.lines_gdf

\* LineString(new_coords) at line 111 refuses a single coordinate: the row
\* has one coordinate and a snap_target was found
LineStringRaises(geoms, i, tolerance, order) ==
    /\ HasCoords(geoms[i])
    /\ Len(Coords(geoms[i])) = 1
    /\ ScanMatches(geoms, order, 1, i, EndPoint(geoms[i]),
                   [dist_sq |-> tolerance * tolerance, target |-> 0]).target # 0

SnapStep ==
    /\ snap.pc = "loop"
    /\ snap.i <= Len(snap.lines_gdf)
    /\ \E order \in Orderings(PossibleMatches(snap.sindex, snap.i, snap.tolerance)) :
          /\ ~LineStringRaises(SnapReads, snap.i, snap.tolerance, order)
          /\ LET r == SnapRow(SnapReads, snap.i, snap.tolerance, order)
             IN snap' = [snap EXCEPT
                        !.i = @ + 1,
                        !.new_geoms = Append(@, r.new_geom),
                        !.snapped_count = IF r.target # 0 THEN @ + 1 ELSE @,
                        !.targets = Append(@, r.target)]
    /\ UNCHANGED <<seg, asm, expl, plan, rec, main, km, down>>

\* the exception of LineString(new_coords) leaves snap_endpoints: the lines
\* not yet processed are never processed and nothing is returned
SnapRaise ==
    /\ snap.pc = "loop"
    /\ snap.i <= Len(snap.lines_gdf)
    /\ \E order \in Orderings(PossibleMatches(snap.sindex, snap.i, snap.tolerance)) :
          LineStringRaises(SnapReads, snap.i, snap.tolerance, order)
    /\ snap' = [snap EXCEPT !.pc = "raised"]
    /\ UNCHANGED <<seg, asm, expl, plan, rec, main, km, down>>

\* lines_gdf.geometry = new_geoms; return lines_gdf
SnapReturn ==
    /\ snap.pc = "loop"
    /\ snap.i > Len(snap.lines_gdf)
    /\ snap' = [snap EXCEPT !.lines_gdf = snap.new_geoms, !.pc = "done"]
    /\ UNCHANGED <<seg, asm, expl, plan, rec, main, km, down>>

SnapNext == SnapStep \/ SnapRaise \/ SnapReturn

SpecSnap == SnapInit /\ [][SnapNext]_vars

(***************************************************************************)
(* build_graph_and_csvs                                                    *)
(*                                                                         *)
(* Here coordinates are in units of 1 / SubQuant of the fifth decimal of   *)
(* a degree: the formatted text f"{x:.5f}" of a coordinate x >= 0 is       *)
(* modelled by the number of 0.00001 steps it rounds to.                   *)
(***************************************************************************)
\* model units per 0.00001 degree
SubQuant == 4
\* largest 0.00001-degree cell of an endpoint handed to the assembler
MaxCell == 1

\* f"{x:.5f}"
Fmt5(x) == (2 * x + SubQuant) \div (2 * SubQuant)

\* f"{u[0]:.5f}_{u[1]:.5f}"
NodeId(p) == <<Fmt5(p[1]), Fmt5(p[2])>>

\* geom.wkt
Wkt(geom) == <<geom.type, Coords(geom)>>

\* {'node_id': ..., 'lon': u[0], 'lat': u[1]}
NodeRow(p) == [node_id |-> NodeId(p), lon |-> p[1], lat |-> p[2]]

NewNodeRowsStartOnly(seen, u, v) == IF u \notin seen THEN <<NodeRow(u)>> ELSE <<>>

\* the rows appended to node_data for the endpoints u and v, seen being
\* seen_nodes before the row
NewNodeRows(seen, u, v) ==
    (IF u \notin seen THEN <<NodeRow(u)>> ELSE <<>>)
    \o (IF v \notin seen \cup {u} THEN <<NodeRow(v)>> ELSE <<>>)

\* length_km = geom.length * 111
LengthKm(geom) == Length(geom) * KmPerDegree

EdgeRowIdOne(row, k) ==
    [edge_id |-> 1,
     from_node_id |-> NodeId(Coords(row.geometry)[1]),
     to_node_id |-> NodeId(EndPoint(row.geometry)),
     river_name |-> row.river_name,
     length_km |-> LengthKm(row.geometry),
     wkt |-> Wkt(row.geometry)]

EdgeRowSeqIds(row, k) ==
    [edge_id |-> k,
     from_node_id |-> <<2 * k, 0>>,
     to_node_id |-> <<2 * k + 1, 0>>,
     river_name |-> row.river_name,
     length_km |-> LengthKm(row.geometry),
     wkt |-> Wkt(row.geometry)]

\* the dict appended to edge_data for the row at position k (edge_id = k)
EdgeRow(row, k) ==
    [edge_id |-> k,
     from_node_id |-> NodeId(Coords(row.geometry)[1]),
     to_node_id |-> NodeId(EndPoint(row.geometry)),
     river_name |-> row.river_name,
     length_km |-> LengthKm(row.geometry),
     wkt |-> Wkt(row.geometry)]

\* G.add_node(n, **attrs): the node is created, or its attributes replaced
AddNode(nodes, n, attrs) ==
    [m \in DOMAIN nodes \cup {n} |-> IF m = n THEN attrs ELSE nodes[m]]

\* G.add_edge(u, v, **attrs) on a DiGraph: one edge per ordered pair, whose
\* attributes are replaced when the pair is already joined
AddEdge(edges, u, v, attrs) ==
    [e \in DOMAIN edges \cup {<<u, v>>} |-> IF e = <<u, v>> THEN attrs ELSE edges[e]]

\* rows the loop skips: geom is None, or len(coords) < 2
Degenerate(geom) == geom.type = "None" \/ Len(Coords(geom)) < 2

AsmEmpty ==
    [G_nodes |-> <<>>, G_edges |-> <<>>, node_data |-> <<>>, edge_data |-> <<>>,
     seen_nodes |-> {}]

\* The body of the loop for the row at position k (index label k - 1).
AssembleRow(acc, row, k) ==
    IF Degenerate(row.geometry) THEN acc
    ELSE LET u == Coords(row.geometry)[1]
             v == EndPoint(row.geometry)
             e == EdgeRow(row, k)
         IN [G_nodes |->
                AddNode(AddNode(acc.G_nodes, u,
                                [pos |-> u, type |-> IF k - 1 = 0 THEN "source" ELSE "channel"]),
                        v, [pos |-> v, type |-> "channel"]),
             G_edges |->
                AddEdge(acc.G_edges, u, v,
                        [edge_id |-> e.edge_id, name |-> e.river_name,
                         length_km |-> e.length_km, wkt |-> e.wkt]),
             node_data |-> acc.node_data \o NewNodeRows(acc.seen_nodes, u, v),
             edge_data |-> Append(acc.edge_data, e),
             seen_nodes |-> acc.seen_nodes \cup {u, v}]

\* the whole loop over rows k..Len(lines)
RECURSIVE AssembleFrom(_, _, _)
AssembleFrom(acc, lines, k) ==
    IF k > Len(lines) THEN acc
    ELSE AssembleFrom(AssembleRow(acc, lines[k], k), lines, k + 1)

AsmPoints == {<<c * SubQuant + o, 0>> : c \in 0..MaxCell, o \in 0..1}

\* a second path between the same endpoints
Detour(u, v) == <<u, <<u[1], SubQuant>>, <<v[1], SubQuant>>, v>>

AsmGeoms ==
    {LineString(<<u, v>>) : u \in AsmPoints, v \in AsmPoints}
    \cup {LineString(Detour(u, v)) : u \in AsmPoints, v \in AsmPoints}

AsmRows == {[river_name |-> "Indus", geometry |-> g] : g \in AsmGeoms}

AsmFillerRows ==
    {[river_name |-> "Jhelum", geometry |-> g] :
        g \in {NoneGeom, LineString(<<>>), Point(<<0, 0>>),
               LineString(<<<<0, 0>>, <<SubQuant, 0>>>>)}}

AsmInputs ==
    {<<>>} \cup {<<a>> : a \in AsmRows \cup AsmFillerRows}
    \cup {<<a, b>> : a \in AsmRows, b \in AsmRows}
    \cup {<<a, b, f>> : a \in AsmRows, b \in AsmRows, f \in AsmFillerRows}
    \cup {<<f, a, b>> : a \in AsmRows, b \in AsmRows, f \in AsmFillerRows}

\* lines_gdf after reset_index: the row at position k has index label k - 1
\* and edge_id k; idx is the position the loop is at.
AsmInit ==
    /\ down = DownIdle
    /\ km = KmIdle
    /\ main = MainIdle
    /\ rec = RecIdle
    /\ plan = PlanIdle
    /\ seg = SegIdle
    /\ snap = SnapIdle
    /\ expl = ExplIdle
    /\ asm \in {[pc |-> "loop", lines_gdf |-> rows, idx |-> 1, G_nodes |-> <<>>,
                 G_edges |-> <<>>, node_data |-> <<>>, edge_data |-> <<>>,
                 seen_nodes |-> {}] : rows \in AsmInputs}

AsmAcc ==
    [G_nodes |-> asm.G_nodes, G_edges |-> asm.G_edges, node_data |-> asm.node_data,
     edge_data |-> asm.edge_data, seen_nodes |-> asm.seen_nodes]

AssembleStep ==
    /\ asm.pc = "loop"
    /\ asm.idx <= Len(asm.lines_gdf)
    /\ LET r == AssembleRow(AsmAcc, asm.lines_gdf[asm.idx], asm.idx)
       IN asm' = [asm EXCEPT
                    !.idx = @ + 1,
                    !.G_nodes = r.G_nodes,
                    !.G_edges = r.G_edges,
                    !.node_data = r.node_data,
                    !.edge_data = r.edge_data,
                    !.seen_nodes = r.seen_nodes]
    /\ UNCHANGED <<seg, snap, expl, plan, rec, main, km, down>>

\* return G, pd.DataFrame(node_data), pd.DataFrame(edge_data)
AssembleReturn ==
    /\ asm.pc = "loop"
    /\ asm.idx > Len(asm.lines_gdf)
    /\ asm' = [asm EXCEPT !.pc = "done"]
    /\ UNCHANGED <<seg, snap, expl, plan, rec, main, km, down>>

AsmNext == AssembleStep \/ AssembleReturn

SpecAsm == AsmInit /\ [][AsmNext]_vars

(***************************************************************************)
(* explode_multilinestrings                                                *)
(***************************************************************************)
\* name = row.get('name_en', 'Unknown')
RowName(row, has_name_en) == IF has_name_en THEN row.name_en ELSE "Unknown"

\* The body of the loop over the rows: the dicts appended to lines for one row.
ExplodeRow(row, has_name_en) ==
    IF row.geometry.type = "None" THEN <<>>
    ELSE IF row.geometry.type = "MultiLineString"
         THEN [j \in 1..Len(row.geometry.parts) |->
                  [river_name |-> RowName(row, has_name_en),
                   geometry |-> LineString(row.geometry.parts[j])]]
    ELSE IF row.geometry.type = "LineString"
         THEN <<[river_name |-> RowName(row, has_name_en), geometry |-> row.geometry]>>
         ELSE <<>>

ExplPaths == {c \in [1..2 -> SnapPoints] : c[1] # c[2] /\ AxisParallel(c[1], c[2])}

ExplSecondParts == {<<<<0, 0>>, <<0, Grid>>>>, <<<<Grid, Grid>>, <<0, Grid>>, <<0, 0>>>>}

ExplGeoms ==
    {NoneGeom, Point(<<0, 0>>), MultiLineString(<<>>)}
    \cup {LineString(c) : c \in ExplPaths}
    \cup {MultiLineString(<<c>>) : c \in ExplPaths}
    \cup {MultiLineString(<<c, d>>) : c \in ExplPaths, d \in ExplSecondParts}

ExplInputs ==
    {<<>>}
    \cup {<<[name_en |-> "Indus", geometry |-> a]>> : a \in ExplGeoms}
    \cup {<<[name_en |-> "Indus", geometry |-> a], [name_en |-> "Jhelum", geometry |-> b]>> :
             a \in ExplGeoms, b \in ExplGeoms}

\* gdf is the frame read from the input file, crs whether it carries a CRS,
\* has_name_en whether it has the name_en column; idx is the loop position and
\* origin records, for each dict of lines, the row it came from.
ExplInit ==
    /\ down = DownIdle
    /\ km = KmIdle
    /\ main = MainIdle
    /\ rec = RecIdle
    /\ plan = PlanIdle
    /\ seg = SegIdle
    /\ snap = SnapIdle
    /\ asm = AsmIdle
    /\ expl \in {[pc |-> "loop", gdf |-> rows, crs |-> c, has_name_en |-> h, idx |-> 1,
                  lines |-> <<>>, origin |-> <<>>] :
                     rows \in ExplInputs, c \in BOOLEAN, h \in BOOLEAN}

ExplodeStep ==
    /\ expl.pc = "loop"
    /\ expl.idx <= Len(expl.gdf)
    /\ LET out == ExplodeRow(expl.gdf[expl.idx], expl.has_name_en)
       IN expl' = [expl EXCEPT
                     !.idx = @ + 1,
                     !.lines = @ \o out,
                     !.origin = @ \o [j \in 1..Len(out) |-> expl.idx]]
    /\ UNCHANGED <<seg, snap, asm, plan, rec, main, km, down>>

\* return gpd.GeoDataFrame(lines, crs=gdf.crs)
ExplodeReturn ==
    /\ expl.pc = "loop"
    /\ expl.idx > Len(expl.gdf)
    /\ "frame" \in GeoDataFrameOutcomes(expl.lines, expl.crs)
    /\ expl' = [expl EXCEPT !.pc = "done"]
    /\ UNCHANGED <<seg, snap, asm, plan, rec, main, km, down>>

ExplodeRaise ==
    /\ expl.pc = "loop"
    /\ expl.idx > Len(expl.gdf)
    /\ "ValueError" \in GeoDataFrameOutcomes(expl.lines, expl.crs)
    /\ expl' = [expl EXCEPT !.pc = "raised"]
    /\ UNCHANGED <<seg, snap, asm, plan, rec, main, km, down>>

ExplNext == ExplodeStep \/ ExplodeReturn \/ ExplodeRaise

SpecExpl == ExplInit /\ [][ExplNext]_vars

(***************************************************************************)
(* planarize_lines                                                         *)
(*                                                                         *)
(* unary_union nodes the lines at every point where they meet and keeps    *)
(* each stretch once; linemerge then joins the stretches that meet at a    *)
(* point where exactly two of them end.  On the lattice the linework is    *)
(* the set of its elementary edges (pairs of neighbouring lattice points). *)
(* The order in which the library lists the resulting lines, and the       *)
(* direction it gives each of them, are left open.                         *)
(***************************************************************************)
\* the lattice points of the axis-parallel leg p -> q, in order
LegPoints(p, q) ==
    [k \in 1..(LegLen(p, q) \div Grid + 1) |-> PointOnLeg(p, q, (k - 1) * Grid)]

\* the elementary edges of a coordinate sequence
LineEdges(coords) ==
    UNION {{{LegPoints(coords[j], coords[j + 1])[k], LegPoints(coords[j], coords[j + 1])[k + 1]} :
               k \in 1..(LegLen(coords[j], coords[j + 1]) \div Grid)} :
              j \in 1..(Len(coords) - 1)}

\* the geometries of lines_gdf.geometry.tolist() that carry linework
LineworkOf(geoms) == {i \in 1..Len(geoms) : geoms[i].type = "LineString" /\ Len(Coords(geoms[i])) >= 2}

\* the linework of unary_union(geoms)
UnionEdges(geoms) == UNION {LineEdges(Coords(geoms[i])) : i \in LineworkOf(geoms)}

EdgePoints(E) == UNION E

\* the number of elementary edges that meet at p
Degree(E, p) == Cardinality({e \in E : p \in e})

\* the vertices of the input lines
InputVertices(geoms) ==
    UNION {{Coords(geoms[i])[k] : k \in 1..Len(Coords(geoms[i]))} : i \in LineworkOf(geoms)}

\* the points where unary_union ends a stretch: the ends of the input lines
\* and every point where other than two elementary edges meet
UnionNodes(geoms) ==
    {Coords(geoms[i])[1] : i \in LineworkOf(geoms)}
    \cup {EndPoint(geoms[i]) : i \in LineworkOf(geoms)}
    \cup {p \in EdgePoints(UnionEdges(geoms)) : Degree(UnionEdges(geoms), p) # 2}

MergeNodesEndsOnly(E) == {p \in EdgePoints(E) : Degree(E, p) = 1}

\* the points linemerge does not merge across: those where other than two
\* stretches end
MergeNodes(E) == {p \in EdgePoints(E) : Degree(E, p) # 2}

\* the edges joined to the edges of S through points that are no nodes
RECURSIVE Grow(_, _, _)
Grow(E, nodes, S) ==
    LET T == S \cup {f \in E : \E e \in S : \E p \in e \cap f : p \notin nodes}
    IN IF T = S THEN S ELSE Grow(E, nodes, T)

\* the maximal stretches of the linework between nodes
Chains(E, nodes) == {Grow(E, nodes, {e}) : e \in E}

\* the vertex sequences that walk the stretch C from p
RECURSIVE WalkFrom(_, _, _)
WalkFrom(C, p, path) ==
    IF {e \in C : p \in e} = {} THEN {path}
    ELSE UNION {WalkFrom(C \ {e}, CHOOSE q \in e : q # p, Append(path, CHOOSE q \in e : q # p)) :
                   e \in {f \in C : p \in f}}

\* where a walk of the stretch C can start: at a node of C, anywhere on a
\* ring without a node
Starts(C, nodes) ==
    IF EdgePoints(C) \cap nodes # {} THEN EdgePoints(C) \cap nodes ELSE EdgePoints(C)

\* the vertices a line keeps: its two ends, the nodes and the input vertices
RECURSIVE KeepVertices(_, _, _)
KeepVertices(path, k, keep) ==
    IF k > Len(path) THEN <<>>
    ELSE (IF k = 1 \/ k = Len(path) \/ path[k] \in keep THEN <<path[k]>> ELSE <<>>)
         \o KeepVertices(path, k + 1, keep)

\* the LineStrings the stretch C can come out as
ChainLines(C, nodes, keep) ==
    {LineString(KeepVertices(w, 1, keep)) : w \in UNION {WalkFrom(C, p, <<p>>) : p \in Starts(C, nodes)}}

\* the ways of listing the stretches: any order, any direction
RECURSIVE Listings(_, _, _)
Listings(chains, nodes, keep) ==
    IF chains = {} THEN {<<>>}
    ELSE UNION {{<<g>> \o rest : g \in ChainLines(c, nodes, keep),
                                 rest \in Listings(chains \ {c}, nodes, keep)} : c \in chains}

\* geom_type of a linework of n lines
LineworkType(n) ==
    IF n = 0 THEN "GeometryCollection" ELSE IF n = 1 THEN "LineString" ELSE "MultiLineString"

\* The types an empty union can have.  Missing geometries are left out of
\* the union, and the union of nothing is GEOMETRYCOLLECTION EMPTY; the union
\* of empty lines is LINESTRING EMPTY or GEOMETRYCOLLECTION EMPTY, depending
\* on the GEOS release that computes it.
EmptyUnionTypes(geoms) ==
    {"GeometryCollection"}
    \cup (IF \E i \in 1..Len(geoms) : geoms[i].type = "LineString" THEN {"LineString"} ELSE {})

\* merged = unary_union(lines_gdf.geometry.tolist())
UnaryUnion(geoms) ==
    [type |-> LineworkType(Cardinality(Chains(UnionEdges(geoms), UnionNodes(geoms)))),
     edges |-> UnionEdges(geoms),
     nodes |-> UnionNodes(geoms),
     empties |-> EmptyUnionTypes(geoms)]

\* merged = linemerge(merged)
Linemerge(merged) ==
    [type |-> LineworkType(Cardinality(Chains(merged.edges, MergeNodes(merged.edges)))),
     edges |-> merged.edges,
     nodes |-> MergeNodes(merged.edges),
     empties |-> merged.empties]

\* list(merged.geoms) for a MultiLineString, [merged] otherwise
NewLines(merged, keep) ==
    IF merged.edges = {}
    THEN {<<IF ty = "LineString" THEN LineString(<<>>)
            ELSE [type |-> "GeometryCollection", parts |-> <<>>]>> : ty \in merged.empties}
    ELSE Listings(Chains(merged.edges, merged.nodes), merged.nodes, keep \cup merged.nodes)

\* largest lattice coordinate of a vertex handed to the planarizer
MaxPlanCoord == 2

PlanPoints == {<<x * Grid, y * Grid>> : x \in 0..MaxPlanCoord, y \in 0..MaxPlanCoord}

\* straight lines, and lines with one corner at the middle of the lattice
PlanGeoms ==
    {LineString(c) : c \in {d \in [1..2 -> PlanPoints] : d[1] # d[2] /\ AxisParallel(d[1], d[2])}}
    \cup {LineString(<<p, <<Grid, Grid>>, q>>) :
             p \in {<<0, Grid>>, <<Grid, 0>>}, q \in {<<Grid, 0>>, <<Grid, 2 * Grid>>, <<0, Grid>>}}

PlanThirdGeoms == {NoneGeom, LineString(<<<<0, 0>>, <<0, Grid>>>>)}

PlanInputs ==
    {<<>>, <<NoneGeom>>, <<LineString(<<>>)>>, <<LineString(<<>>), NoneGeom>>}
    \cup {<<a>> : a \in PlanGeoms}
    \cup {<<a, b>> : a \in PlanGeoms, b \in PlanGeoms}
    \cup {<<a, b, c>> : a \in {LineString(<<<<0, Grid>>, <<2 * Grid, Grid>>>>)},
                        b \in PlanGeoms, c \in PlanThirdGeoms}

PlanInit ==
    /\ down = DownIdle
    /\ km = KmIdle
    /\ main = MainIdle
    /\ rec = RecIdle
    /\ seg = SegIdle
    /\ snap = SnapIdle
    /\ asm = AsmIdle
    /\ expl = ExplIdle
    /\ plan \in {[pc |-> "union", lines_gdf |-> g,
                  merged |-> [type |-> "GeometryCollection", edges |-> {}, nodes |-> {},
                              empties |-> {"GeometryCollection"}],
                  new_lines |-> <<>>] : g \in PlanInputs}

\* merged = unary_union(lines_gdf.geometry.tolist())
PlanarizeUnion ==
    /\ plan.pc = "union"
    /\ plan' = [plan EXCEPT !.pc = "test", !.merged = UnaryUnion(plan.lines_gdf)]
    /\ UNCHANGED <<seg, snap, asm, expl, rec, main, km, down>>

\* if merged.geom_type == 'MultiLineString': merged = linemerge(merged)
PlanarizeLinemerge ==
    /\ plan.pc = "test"
    /\ plan.merged.type = "MultiLineString"
    /\ plan' = [plan EXCEPT !.pc = "list", !.merged = Linemerge(plan.merged)]
    /\ UNCHANGED <<seg, snap, asm, expl, rec, main, km, down>>

\* else: new_lines = [merged]
PlanarizeSingle ==
    /\ plan.pc = "test"
    /\ plan.merged.type # "MultiLineString"
    /\ plan' = [plan EXCEPT !.pc = "list"]
    /\ UNCHANGED <<seg, snap, asm, expl, rec, main, km, down>>

\* new_lines = list(merged.geoms) or [merged];
\* return gpd.GeoDataFrame(geometry=new_lines, crs=lines_gdf.crs)
PlanarizeReturn ==
    /\ plan.pc = "list"
    /\ \E lines \in NewLines(plan.merged, InputVertices(plan.lines_gdf)) :
          plan' = [plan EXCEPT !.pc = "done", !.new_lines = lines]
    /\ UNCHANGED <<seg, snap, asm, expl, rec, main, km, down>>

PlanNext == PlanarizeUnion \/ PlanarizeLinemerge \/ PlanarizeSingle \/ PlanarizeReturn

SpecPlan == PlanInit /\ [][PlanNext]_vars

(***************************************************************************)
(* Attribute recovery: the spatial join of the pipeline and its clean-up.  *)
(***************************************************************************)
\* the missing value the left join fills in (NaN)
NaN == "NaN"

\* the linework of a geometry of any type
GeomEdges(geom) ==
    IF geom.type \in {"LineString", "MultiLineString"}
    THEN UNION {LineEdges(geom.parts[k]) : k \in 1..Len(geom.parts)}
    ELSE {}

\* predicate='covered_by': no point of a lies off b (empty geometries match nothing)
CoveredBy(a, b) == GeomEdges(a) # {} /\ GeomEdges(a) \subseteq GeomEdges(b)

\* the positions of the features of gdf that cover the line
Matches(line, gdf) == {r \in 1..Len(gdf) : CoveredBy(line, gdf[r].geometry)}

\* The rows gpd.sjoin(..., how='left') gives for the left row i, its matches
\* coming from the spatial index in the given order: one row per match, or
\* one row with missing right-hand columns.
JoinRows(i, line, gdf, order) ==
    IF order = <<>>
    THEN <<[index |-> i, geometry |-> line, index_right |-> NaN, name_en |-> NaN]>>
    ELSE [k \in 1..Len(order) |->
             [index |-> i, geometry |-> line, index_right |-> order[k],
              name_en |-> gdf[order[k]].name_en]]

DedupKeepLast(joined) ==
    SelectSeq([k \in 1..Len(joined) |->
                  IF \E j \in (k + 1)..Len(joined) : joined[j].index = joined[k].index
                  THEN [index |-> 0] ELSE joined[k]],
              LAMBDA r : r.index # 0)

\* planarized[~planarized.index.duplicated(keep='first')]
DedupKeepFirst(joined) ==
    SelectSeq([k \in 1..Len(joined) |->
                  IF \E j \in 1..(k - 1) : joined[j].index = joined[k].index
                  THEN [index |-> 0] ELSE joined[k]],
              LAMBDA r : r.index # 0)

\* rename(columns={'name_en': 'river_name'}), drop(columns=['index_right'])
\* and the removal of the duplicated index labels
CleanJoin(joined) ==
    [k \in 1..Len(DedupKeepFirst(joined)) |->
        [river_name |-> DedupKeepFirst(joined)[k].name_en,
         geometry |-> DedupKeepFirst(joined)[k].geometry]]

RecLines ==
    {LineString(c) : c \in ExplPaths}
    \cup {LineString(<<<<0, 0>>, <<Grid, 0>>, <<Grid, Grid>>>>),
          [type |-> "GeometryCollection", parts |-> <<>>]}

RecInputs ==
    {<<a>> : a \in RecLines}
    \cup {<<a, b>> : a \in RecLines, b \in {LineString(<<<<0, 0>>, <<Grid, 0>>>>)}}

RecFeatures ==
    {<<[name_en |-> "Indus", geometry |-> a]>> : a \in ExplGeoms}
    \cup {<<[name_en |-> "Indus", geometry |-> a], [name_en |-> "Jhelum", geometry |-> b]>> :
             a \in ExplGeoms, b \in ExplGeoms}
    \cup {<<[name_en |-> "Indus", geometry |-> a], [name_en |-> "Jhelum", geometry |-> a],
            [name_en |-> "Chenab", geometry |-> a]>> : a \in ExplGeoms}

\* planarized is the frame returned by planarize_lines, gdf the frame read
\* from the input file; i is the left row the join is at.
RecInit ==
    /\ down = DownIdle
    /\ km = KmIdle
    /\ main = MainIdle
    /\ seg = SegIdle
    /\ snap = SnapIdle
    /\ asm = AsmIdle
    /\ expl = ExplIdle
    /\ plan = PlanIdle
    /\ rec \in {[pc |-> "join", planarized |-> p, gdf |-> g, i |-> 1, joined |-> <<>>,
                 result |-> <<>>] : p \in RecInputs, g \in RecFeatures}

\* gpd.sjoin(planarized, gdf[['name_en', 'geometry']], how='left',
\*           predicate='covered_by'), one left row at a time
RecoverJoinRow ==
    /\ rec.pc = "join"
    /\ rec.i <= Len(rec.planarized)
    /\ \E order \in Orderings(Matches(rec.planarized[rec.i], rec.gdf)) :
          rec' = [rec EXCEPT
                    !.i = @ + 1,
                    !.joined = @ \o JoinRows(rec.i, rec.planarized[rec.i], rec.gdf, order)]
    /\ UNCHANGED <<seg, snap, asm, expl, plan, main, km, down>>

\* rename, drop and planarized[~planarized.index.duplicated(keep='first')]
RecoverClean ==
    /\ rec.pc = "join"
    /\ rec.i > Len(rec.planarized)
    /\ rec' = [rec EXCEPT !.pc = "done", !.result = CleanJoin(rec.joined)]
    /\ UNCHANGED <<seg, snap, asm, expl, plan, main, km, down>>

RecNext == RecoverJoinRow \/ RecoverClean

SpecRec == RecInit /\ [][RecNext]_vars

(***************************************************************************)
(* The main pipeline (the script's __main__ block).  Each stage function   *)
(* is called as a whole.  SNAP_TOLERANCE and SEGMENT_LENGTH_KM are taken   *)
(* from small sets, scaled to the lattice.                                 *)
(***************************************************************************)
\* explode_multilinestrings: the dicts of lines for the rows k.. of gdf
RECURSIVE ExplodeFrom(_, _, _)
ExplodeFrom(gdf, has_name_en, k) ==
    IF k > Len(gdf) THEN <<>>
    ELSE ExplodeRow(gdf[k], has_name_en) \o ExplodeFrom(gdf, has_name_en, k + 1)

\* snap_endpoints: the geometry columns the loop over the rows i.. can build,
\* one for each way the index can order the candidates
RECURSIVE SnapFrom(_, _, _)
SnapFrom(geoms, tolerance, i) ==
    IF i > Len(geoms) THEN {<<>>}
    ELSE {<<g>> \o rest :
             g \in {SnapRow(geoms, i, tolerance, order).new_geom :
                       order \in Orderings(PossibleMatches(geoms, i, tolerance))},
             rest \in SnapFrom(geoms, tolerance, i + 1)}

\* planarize_lines: the lists of new_lines it can return
PlanarizeLines(geoms) ==
    NewLines(IF UnaryUnion(geoms).type = "MultiLineString"
             THEN Linemerge(UnaryUnion(geoms))
             ELSE UnaryUnion(geoms),
             InputVertices(geoms))

\* The join and its clean-up for the lines i.. of planarized.  Index labels
\* are those of the planarized lines, so the de-duplication works line by line.
RECURSIVE RecoverFrom(_, _, _)
RecoverFrom(planarized, gdf, i) ==
    IF i > Len(planarized) THEN {<<>>}
    ELSE {row \o rest :
             row \in {CleanJoin(JoinRows(i, planarized[i], gdf, order)) :
                         order \in Orderings(Matches(planarized[i], gdf))},
             rest \in RecoverFrom(planarized, gdf, i + 1)}

\* segmentize_lines: new_lines for the rows k..
RECURSIVE SegmentizeFrom(_, _, _)
SegmentizeFrom(rows, interval_deg, k) ==
    IF k > Len(rows) THEN <<>>
    ELSE SegmentizeRow(rows[k], interval_deg) \o SegmentizeFrom(rows, interval_deg, k + 1)

\* The assembler's node ids are modelled in units of 1 / SubQuant of a
\* 0.00001-degree cell: a pipeline unit is taken as one such cell.
InCells(rows) ==
    [k \in 1..Len(rows) |->
        [river_name |-> rows[k].river_name,
         geometry |->
            [type |-> rows[k].geometry.type,
             parts |-> [j \in 1..Len(rows[k].geometry.parts) |->
                           [v \in 1..Len(rows[k].geometry.parts[j]) |->
                               <<rows[k].geometry.parts[j][v][1] * SubQuant,
                                 rows[k].geometry.parts[j][v][2] * SubQuant>>]]]]]

\* replaces the geometry column of a frame
WithGeometry(rows, geoms) ==
    [k \in 1..Len(rows) |-> [rows[k] EXCEPT !.geometry = geoms[k]]]

GeometryOf(rows) == [k \in 1..Len(rows) |-> rows[k].geometry]

StageOrderPlanarizeFirst ==
    <<"load", "explode", "planarize", "snap", "recover", "segment", "assemble", "save">>

\* the stages in the order of the program text
StageOrder ==
    <<"load", "explode", "snap", "planarize", "recover", "segment", "assemble", "save">>

\* the stage the program goes on to when the stage s has returned
After(s) ==
    IF s = StageOrder[Len(StageOrder)] THEN "done"
    ELSE StageOrder[(CHOOSE k \in 1..Len(StageOrder) : StageOrder[k] = s) + 1]

\* the four output artifacts
Artifacts == {"OUTPUT_GPKG", "OUTPUT_NODES_CSV", "OUTPUT_EDGES_CSV", "OUTPUT_GRAPH"}

\* a river along the lower edge of the lattice and one through its middle, a
\* tributary that stops one step short of the lower river, lines that touch
\* or cross a river, a two-part feature and a feature without geometry
MainGeoms ==
    {LineString(<<<<0, 0>>, <<2 * Grid, 0>>>>),
     LineString(<<<<0, Grid>>, <<2 * Grid, Grid>>>>),
     LineString(<<<<Grid, 2 * Grid>>, <<Grid, Grid>>>>),
     LineString(<<<<Grid, Grid>>, <<Grid, 0>>>>),
     LineString(<<<<Grid, 2 * Grid>>, <<Grid, 0>>>>),
     MultiLineString(<<<<<<0, 2 * Grid>>, <<0, Grid>>>>, <<<<2 * Grid, 2 * Grid>>, <<2 * Grid, Grid>>>>>>),
     NoneGeom}

MainNames == <<"Indus", "Jhelum", "Chenab">>

\* files whose features carry empty lines: alone, next to a feature without
\* geometry and next to a river
MainEmptyFiles ==
    {<<[name_en |-> MainNames[1], geometry |-> LineString(<<>>)]>>,
     <<[name_en |-> MainNames[1], geometry |-> LineString(<<>>)],
       [name_en |-> MainNames[2], geometry |-> NoneGeom]>>,
     <<[name_en |-> MainNames[1], geometry |-> LineString(<<>>)],
       [name_en |-> MainNames[2], geometry |-> LineString(<<>>)]>>,
     <<[name_en |-> MainNames[1], geometry |-> LineString(<<>>)],
       [name_en |-> MainNames[2], geometry |-> LineString(<<<<0, 0>>, <<2 * Grid, 0>>>>)]>>}

MainFiles ==
    {<<>>}
    \cup {<<[name_en |-> MainNames[1], geometry |-> a]>> : a \in MainGeoms}
    \cup {<<[name_en |-> MainNames[1], geometry |-> a],
            [name_en |-> MainNames[2], geometry |-> b]>> : a \in MainGeoms, b \in MainGeoms}
    \cup {<<[name_en |-> MainNames[1], geometry |-> LineString(<<<<0, 0>>, <<2 * Grid, 0>>>>)],
            [name_en |-> MainNames[2], geometry |-> b],
            [name_en |-> MainNames[3], geometry |-> c]>> :
             b \in MainGeoms, c \in MainGeoms \ {NoneGeom}}
    \cup MainEmptyFiles

\* every leg of the line is axis-parallel
OnLattice(geom) ==
    \A k \in 1..(Len(Coords(geom)) - 1) : AxisParallel(Coords(geom)[k], Coords(geom)[k + 1])

\* The lattice geometry is exact for the file: however the snapper orders
\* its candidates the lines stay axis-parallel, and no planarized line is
\* longer than the longest line the segmenter's grid divides evenly.
Exact(file, tolerance) ==
    \A geoms \in SnapFrom(GeometryOf(ExplodeFrom(file, TRUE, 1)), tolerance, 1) :
        /\ \A k \in 1..Len(geoms) : OnLattice(geoms[k])
        /\ Cardinality(UnionEdges(geoms)) <= MaxLineLen

\* The runs: the input file is missing, cannot be read, or holds features.
MainStarts ==
    {[MainIdle EXCEPT !.pc = "load", !.file = f, !.tolerance = Grid] :
        f \in {"missing", "unreadable"}}
    \cup UNION {{[MainIdle EXCEPT !.pc = "load", !.file = "ok", !.input = rows,
                                  !.has_name_en = c[1], !.crs = c[2],
                                  !.tolerance = t, !.interval_km = t_km] :
                    rows \in {r \in MainFiles : Exact(r, t)},
                    c \in {<<TRUE, TRUE>>, <<TRUE, FALSE>>, <<FALSE, TRUE>>},
                    t_km \in {1, 2}} : t \in {Grid, Grid + 1}}

MainInit ==
    /\ down = DownIdle
    /\ km = KmIdle
    /\ seg = SegIdle
    /\ snap = SnapIdle
    /\ asm = AsmIdle
    /\ expl = ExplIdle
    /\ plan = PlanIdle
    /\ rec = RecIdle
    /\ main \in MainStarts

\* the stage has returned: the run goes on to the next stage
Returned(m, stage) == [m EXCEPT !.pc = After(stage), !.trace = Append(@, stage)]

\* an exception leaves the stage: traceback, exit status 1
Raised(m, stage) ==
    [m EXCEPT !.pc = "raised", !.trace = Append(@, stage), !.diagnostic = TRUE,
              !.status = "failure"]

MainMissingGoesOn ==
    /\ main.pc = "load"
    /\ main.file = "missing"
    /\ main' = Returned(main, "load")
    /\ UNCHANGED <<seg, snap, asm, expl, plan, rec, km, down>>

\* if not os.path.exists(INPUT_FILE): print(ERROR ...); sys.exit(1)
MainMissing ==
    /\ main.pc = "load"
    /\ main.file = "missing"
    /\ main' = [main EXCEPT !.pc = "exited", !.diagnostic = TRUE, !.status = "failure"]
    /\ UNCHANGED <<seg, snap, asm, expl, plan, rec, km, down>>

\* gdf = gpd.read_file(INPUT_FILE)
MainLoad ==
    /\ main.pc = "load"
    /\ main.file = "ok"
    /\ main' = Returned([main EXCEPT !.gdf = main.input], "load")
    /\ UNCHANGED <<seg, snap, asm, expl, plan, rec, km, down>>

\* gpd.read_file raises on a file it cannot read
MainLoadRaise ==
    /\ main.pc = "load"
    /\ main.file = "unreadable"
    /\ main' = Raised(main, "load")
    /\ UNCHANGED <<seg, snap, asm, expl, plan, rec, km, down>>

\* exploded = explode_multilinestrings(gdf)
MainExplode ==
    /\ main.pc = "explode"
    /\ "frame" \in GeoDataFrameOutcomes(ExplodeFrom(main.gdf, main.has_name_en, 1), main.crs)
    /\ main' = Returned([main EXCEPT !.exploded = ExplodeFrom(main.gdf, main.has_name_en, 1)],
                        "explode")
    /\ UNCHANGED <<seg, snap, asm, expl, plan, rec, km, down>>

MainExplodeRaise ==
    /\ main.pc = "explode"
    /\ "ValueError" \in GeoDataFrameOutcomes(ExplodeFrom(main.gdf, main.has_name_en, 1), main.crs)
    /\ main' = Raised(main, "explode")
    /\ UNCHANGED <<seg, snap, asm, expl, plan, rec, km, down>>

\* snapped = snap_endpoints(exploded, SNAP_TOLERANCE): the call assigns the
\* geometry column of exploded and returns that frame
MainSnap ==
    /\ main.pc = "snap"
    /\ main.exploded # <<>>
    /\ \E geoms \in SnapFrom(GeometryOf(main.exploded), main.tolerance, 1) :
          main' = Returned([main EXCEPT !.exploded = WithGeometry(main.exploded, geoms),
                                         !.snapped = WithGeometry(main.exploded, geoms)],
                           "snap")
    /\ UNCHANGED <<seg, snap, asm, expl, plan, rec, km, down>>

\* a frame built from no rows has no geometry column: lines_gdf.sindex raises
MainSnapRaise ==
    /\ main.pc = "snap"
    /\ main.exploded = <<>>
    /\ main' = Raised(main, "snap")
    /\ UNCHANGED <<seg, snap, asm, expl, plan, rec, km, down>>

\* planarized = planarize_lines(snapped)
MainPlanarize ==
    /\ main.pc = "planarize"
    /\ \E lines \in PlanarizeLines(GeometryOf(main.snapped)) :
          main' = Returned([main EXCEPT !.planarized = lines], "planarize")
    /\ UNCHANGED <<seg, snap, asm, expl, plan, rec, km, down>>

\* the spatial join with gdf[['name_en', 'geometry']] and its clean-up
MainRecover ==
    /\ main.pc = "recover"
    /\ main.has_name_en
    /\ \E rows \in RecoverFrom(main.planarized, main.gdf, 1) :
          main' = Returned([main EXCEPT !.recovered = rows], "recover")
    /\ UNCHANGED <<seg, snap, asm, expl, plan, rec, km, down>>

\* gdf[['name_en', 'geometry']] raises KeyError without the column
MainRecoverRaise ==
    /\ main.pc = "recover"
    /\ ~main.has_name_en
    /\ main' = Raised(main, "recover")
    /\ UNCHANGED <<seg, snap, asm, expl, plan, rec, km, down>>

\* segmented = segmentize_lines(planarized, interval_km=SEGMENT_LENGTH_KM)
MainSegment ==
    /\ main.pc = "segment"
    /\ "frame" \in GeoDataFrameOutcomes(
                       SegmentizeFrom(main.recovered, IntervalDeg(main.interval_km), 1), main.crs)
    /\ main' = Returned([main EXCEPT !.segmented =
                             SegmentizeFrom(main.recovered, IntervalDeg(main.interval_km), 1)],
                        "segment")
    /\ UNCHANGED <<seg, snap, asm, expl, plan, rec, km, down>>

\* segmentize_lines collected no segment: its closing GeoDataFrame([], crs=...)
\* can raise
MainSegmentRaise ==
    /\ main.pc = "segment"
    /\ "ValueError" \in GeoDataFrameOutcomes(
                            SegmentizeFrom(main.recovered, IntervalDeg(main.interval_km), 1),
                            main.crs)
    /\ main' = Raised(main, "segment")
    /\ UNCHANGED <<seg, snap, asm, expl, plan, rec, km, down>>

\* G, nodes_df, edges_df = build_graph_and_csvs(segmented)
MainAssemble ==
    /\ main.pc = "assemble"
    /\ main' = Returned([main EXCEPT !.graph = AssembleFrom(AsmEmpty, InCells(main.segmented), 1)],
                        "assemble")
    /\ UNCHANGED <<seg, snap, asm, expl, plan, rec, km, down>>

\* segmented.to_file(OUTPUT_GPKG, driver="GPKG")
MainSaveGpkg ==
    /\ main.pc = "save"
    /\ main.segmented # <<>>
    /\ main' = [main EXCEPT !.pc = "save_nodes", !.trace = Append(@, "save"),
                            !.written = @ \cup {"OUTPUT_GPKG"}]
    /\ UNCHANGED <<seg, snap, asm, expl, plan, rec, km, down>>

\* a frame built from no rows has no geometry column: to_file raises
MainSaveGpkgRaise ==
    /\ main.pc = "save"
    /\ main.segmented = <<>>
    /\ main' = Raised(main, "save")
    /\ UNCHANGED <<seg, snap, asm, expl, plan, rec, km, down>>

\* nodes_df.to_csv(OUTPUT_NODES_CSV, index=False)
MainSaveNodes ==
    /\ main.pc = "save_nodes"
    /\ main' = [main EXCEPT !.pc = "save_edges", !.written = @ \cup {"OUTPUT_NODES_CSV"}]
    /\ UNCHANGED <<seg, snap, asm, expl, plan, rec, km, down>>

\* edges_df.to_csv(OUTPUT_EDGES_CSV, index=False)
MainSaveEdges ==
    /\ main.pc = "save_edges"
    /\ main' = [main EXCEPT !.pc = "save_pickle", !.written = @ \cup {"OUTPUT_EDGES_CSV"}]
    /\ UNCHANGED <<seg, snap, asm, expl, plan, rec, km, down>>

\* pickle.dump(G, f, pickle.HIGHEST_PROTOCOL); the script ends
MainSavePickle ==
    /\ main.pc = "save_pickle"
    /\ main' = [main EXCEPT !.pc = After("save"), !.written = @ \cup {"OUTPUT_GRAPH"},
                            !.status = IF After("save") = "done" THEN "success" ELSE @]
    /\ UNCHANGED <<seg, snap, asm, expl, plan, rec, km, down>>

MainNext ==
    \/ MainMissing \/ MainLoad \/ MainLoadRaise
    \/ MainExplode \/ MainExplodeRaise
    \/ MainSnap \/ MainSnapRaise
    \/ MainPlanarize
    \/ MainRecover \/ MainRecoverRaise
    \/ MainSegment \/ MainSegmentRaise
    \/ MainAssemble
    \/ MainSaveGpkg \/ MainSaveGpkgRaise \/ MainSaveNodes \/ MainSaveEdges \/ MainSavePickle

SpecMain == MainInit /\ [][MainNext]_vars

(***************************************************************************)
(* The lengths of segmentize_lines and build_graph_and_csvs in floating     *)
(* point, for a straight line from (0, 0) to (line_length, 0).  A float is  *)
(* a number with MantissaBits significant bits, held as a multiple of       *)
(* 2^-ScaleBits; every operation rounds its exact result to the nearest     *)
(* float, ties to even, as IEEE 754 arithmetic does with 53 bits.           *)
(***************************************************************************)
\* significant bits of a float
MantissaBits == 5
\* a float v is held as the integer v * 2^ScaleBits
ScaleBits == 12

RECURSIVE Pow2(_)
Pow2(n) == IF n <= 0 THEN 1 ELSE 2 * Pow2(n - 1)

\* the float 1.0
One == Pow2(ScaleBits)

\* the spacing of the floats around num / den: the least power of two u,
\* from u on, with num / den < 2^MantissaBits * u
RECURSIVE UlpFrom(_, _, _)
UlpFrom(num, den, u) ==
    IF num < den * Pow2(MantissaBits) * u THEN u ELSE UlpFrom(num, den, 2 * u)

\* num / den rounded to the nearest float, ties to even
Fl(num, den) ==
    LET u == UlpFrom(num, den, 1)
        q == num \div (den * u)
        r == num % (den * u)
    IN IF 2 * r < den * u THEN q * u
       ELSE IF 2 * r > den * u THEN (q + 1) * u
       ELSE IF q % 2 = 0 THEN q * u ELSE (q + 1) * u

\* int(np.ceil(x))
Ceil(x) == (x + One - 1) \div One

\* interval_deg = interval_km / 111.0
KmIntervalDeg(interval_km) == Fl(interval_km * One, KmPerDegree)

KmNumSegmentsFloor(line_length, interval_deg) == Fl(line_length * One, interval_deg) \div One

\* num_segments = int(np.ceil(line_length / interval_deg))
KmNumSegments(line_length, interval_deg) == Ceil(Fl(line_length * One, interval_deg))

\* segment_length = line_length / num_segments
KmSegmentLength(line_length, num_segments) == Fl(line_length, num_segments)

\* geom.interpolate(dist) on the line from (0, 0) to (line_length, 0): the
\* fraction of the leg, then the point at that fraction (its x)
KmInterpolate(line_length, dist) ==
    IF dist <= 0 THEN 0
    ELSE IF dist >= line_length THEN line_length
    ELSE Fl(Fl(dist * One, line_length) * line_length, One)

\* substring(geom, start_dist, end_dist).length for segment i (from 0):
\* the distance between the two interpolated points
KmSubstringLength(line_length, segment_length, i) ==
    LET start_dist == Fl(i * segment_length, 1)
        end == Fl((i + 1) * segment_length, 1)
        end_dist == IF end > line_length THEN line_length ELSE end
    IN Fl(KmInterpolate(line_length, end_dist) - KmInterpolate(line_length, start_dist), 1)

\* length_km = geom.length * 111
KmLengthKm(length) == Fl(length * KmPerDegree, 1)

\* the floats from 2^(MantissaBits - 1) units up to four times the longest
\* interval
KmLineLengths ==
    {Fl(x, 1) : x \in Pow2(MantissaBits - 1)..(4 * KmIntervalDeg(MaxIntervalKm))}

KmInit ==
    /\ down = DownIdle
    /\ main = MainIdle
    /\ rec = RecIdle
    /\ plan = PlanIdle
    /\ seg = SegIdle
    /\ snap = SnapIdle
    /\ asm = AsmIdle
    /\ expl = ExplIdle
    /\ km \in {[KmIdle EXCEPT !.pc = "interval", !.interval_km = t, !.line_length = l] :
                 t \in 1..MaxIntervalKm, l \in KmLineLengths}

\* interval_deg = interval_km / 111.0
KmInterval ==
    /\ km.pc = "interval"
    /\ km' = [km EXCEPT !.pc = "test", !.interval_deg = KmIntervalDeg(km.interval_km)]
    /\ UNCHANGED <<seg, snap, asm, expl, plan, rec, main, down>>

\* if line_length <= interval_deg: the line is its only segment
KmWhole ==
    /\ km.pc = "test"
    /\ km.line_length <= km.interval_deg
    /\ km' = [km EXCEPT !.pc = "assemble", !.lengths = <<km.line_length>>]
    /\ UNCHANGED <<seg, snap, asm, expl, plan, rec, main, down>>

\* num_segments and segment_length of a longer line
KmCount ==
    /\ km.pc = "test"
    /\ km.line_length > km.interval_deg
    /\ km' = [km EXCEPT
                !.pc = "cut",
                !.num_segments = KmNumSegments(km.line_length, km.interval_deg),
                !.segment_length =
                    KmSegmentLength(km.line_length,
                                    KmNumSegments(km.line_length, km.interval_deg))]
    /\ UNCHANGED <<seg, snap, asm, expl, plan, rec, main, down>>

\* for i in range(num_segments): one segment
KmCut ==
    /\ km.pc = "cut"
    /\ km.i < km.num_segments
    /\ km' = [km EXCEPT
                !.i = @ + 1,
                !.lengths = Append(@, KmSubstringLength(km.line_length, km.segment_length, km.i))]
    /\ UNCHANGED <<seg, snap, asm, expl, plan, rec, main, down>>

\* the loop has ended: the segments go to build_graph_and_csvs
KmCutDone ==
    /\ km.pc = "cut"
    /\ km.i >= km.num_segments
    /\ km' = [km EXCEPT !.pc = "assemble"]
    /\ UNCHANGED <<seg, snap, asm, expl, plan, rec, main, down>>

\* length_km = geom.length * 111 of every segment
KmAssemble ==
    /\ km.pc = "assemble"
    /\ km' = [km EXCEPT !.pc = "done",
                        !.length_km = [e \in 1..Len(km.lengths) |-> KmLengthKm(km.lengths[e])]]
    /\ UNCHANGED <<seg, snap, asm, expl, plan, rec, main, down>>

KmNext == KmInterval \/ KmWhole \/ KmCount \/ KmCut \/ KmCutDone \/ KmAssemble

SpecKm == KmInit /\ [][KmNext]_vars

(***************************************************************************)
(* enhance_graph_connectivity.py and build_complicated_edges.py: the edge  *)
(* tables built on nodes.csv and edges.csv.  The nodes lie on the equator, *)
(* where the great-circle distance is proportional to the difference of    *)
(* the longitudes; a node coordinate is held in the units of the           *)
(* assembler's node ids, and one unit is UnitKm kilometres here.           *)
(***************************************************************************)
\* kilometres per coordinate unit
UnitKm == 12
\* THRESHOLD_KM of enhance_graph_connectivity.py
THRESHOLD_KM == 50
\* DIST_THRESHOLD_KM of build_complicated_edges.py
DIST_THRESHOLD_KM == 100

\* haversine(lon1, lat1, lon2, lat2), for lat1 = lat2 = 0
haversine(a, b) == UnitKm * Abs(a[1] - b[1])

\* the values of a wkt cell that is not a text: None, NaN, and the empty
\* field of a csv file
NoneWkt == <<"None", <<>>>>
NaNWkt == <<"NaN", <<>>>>
EmptyField == <<"", <<>>>>

WithEdgeTypeOne(row, ty) ==
    [edge_id |-> row.edge_id, from_node_id |-> row.from_node_id,
     to_node_id |-> row.to_node_id, river_name |-> row.river_name,
     length_km |-> row.length_km, wkt |-> row.wkt, edge_type |-> 1]

\* river_edges['edge_type'] = 0
WithEdgeType(row, ty) ==
    [edge_id |-> row.edge_id, from_node_id |-> row.from_node_id,
     to_node_id |-> row.to_node_id, river_name |-> row.river_name,
     length_km |-> row.length_km, wkt |-> row.wkt, edge_type |-> ty]

\* river_edges['edge_id'].max()
MaxEdgeId(rows) == SetMax({rows[k].edge_id : k \in 1..Len(rows)})

\* set(zip(river_edges['from_node_id'], river_edges['to_node_id']))
Connections(rows) == {<<rows[k].from_node_id, rows[k].to_node_id>> : k \in 1..Len(rows)}

SpatialPairOneWay(node_a, node_b, existing, id) ==
    IF /\ haversine(<<node_a.lon, node_a.lat>>, <<node_b.lon, node_b.lat>>) < THRESHOLD_KM
       /\ <<node_a.node_id, node_b.node_id>> \notin existing
       /\ <<node_b.node_id, node_a.node_id>> \notin existing
    THEN <<[edge_id |-> id, from_node_id |-> node_a.node_id, to_node_id |-> node_b.node_id,
            river_name |-> "Spatial_Link",
            length_km |-> haversine(<<node_a.lon, node_a.lat>>, <<node_b.lon, node_b.lat>>),
            wkt |-> NoneWkt, edge_type |-> 1]>>
    ELSE <<>>

\* The body of the loops over the pairs of nodes for node_a, node_b: the rows
\* appended to spatial_edges, id being new_edge_id_start + count.
SpatialPair(node_a, node_b, existing, id) ==
    IF /\ haversine(<<node_a.lon, node_a.lat>>, <<node_b.lon, node_b.lat>>) < THRESHOLD_KM
       /\ <<node_a.node_id, node_b.node_id>> \notin existing
       /\ <<node_b.node_id, node_a.node_id>> \notin existing
    THEN <<[edge_id |-> id, from_node_id |-> node_a.node_id, to_node_id |-> node_b.node_id,
            river_name |-> "Spatial_Link",
            length_km |-> haversine(<<node_a.lon, node_a.lat>>, <<node_b.lon, node_b.lat>>),
            wkt |-> NoneWkt, edge_type |-> 1],
           [edge_id |-> id + 1, from_node_id |-> node_b.node_id, to_node_id |-> node_a.node_id,
            river_name |-> "Spatial_Link",
            length_km |-> haversine(<<node_a.lon, node_a.lat>>, <<node_b.lon, node_b.lat>>),
            wkt |-> NoneWkt, edge_type |-> 1]>>
    ELSE <<>>

\* node_coords = {str(node_id): (lon, lat)}: a later row replaces an earlier
\* one with the same node_id
NodeCoords(nodes_df, id) ==
    LET k == SetMax({r \in 1..Len(nodes_df) : nodes_df[r].node_id = id})
    IN <<nodes_df[k].lon, nodes_df[k].lat>>

\* the node ids of a node table
NodeKeys(nodes_df) == {nodes_df[r].node_id : r \in 1..Len(nodes_df)}

CorrelatedPairSameId(node_i, node_j, nodes_df, corr, existing, id) ==
    IF /\ {node_i, node_j} \in corr
       /\ haversine(NodeCoords(nodes_df, node_i), NodeCoords(nodes_df, node_j)) < DIST_THRESHOLD_KM
       /\ <<node_i, node_j>> \notin existing
       /\ <<node_j, node_i>> \notin existing
    THEN [k \in 1..2 |->
             [edge_id |-> id,
              from_node_id |-> IF k = 1 THEN node_i ELSE node_j,
              to_node_id |-> IF k = 1 THEN node_j ELSE node_i,
              river_name |-> "Correlated_Link",
              length_km |-> haversine(NodeCoords(nodes_df, node_i), NodeCoords(nodes_df, node_j)),
              wkt |-> Wkt(LineString(<<NodeCoords(nodes_df, node_i),
                                       NodeCoords(nodes_df, node_j)>>)),
              edge_type |-> 2]]
    ELSE <<>>

\* The body of the loops of build_complicated_edges.py for the columns node_i,
\* node_j of the correlation matrix, both in node_coords: the rows appended to
\* complex_edges, id being next_id + count.  corr holds the pairs whose
\* correlation exceeds CORR_THRESHOLD.  (The columns correlation and
\* elev_delta of the rows are left out.)
CorrelatedPair(node_i, node_j, nodes_df, corr, existing, id) ==
    IF /\ {node_i, node_j} \in corr
       /\ haversine(NodeCoords(nodes_df, node_i), NodeCoords(nodes_df, node_j)) < DIST_THRESHOLD_KM
       /\ <<node_i, node_j>> \notin existing
       /\ <<node_j, node_i>> \notin existing
    THEN [k \in 1..2 |->
             [edge_id |-> id + k - 1,
              from_node_id |-> IF k = 1 THEN node_i ELSE node_j,
              to_node_id |-> IF k = 1 THEN node_j ELSE node_i,
              river_name |-> "Correlated_Link",
              length_km |-> haversine(NodeCoords(nodes_df, node_i), NodeCoords(nodes_df, node_j)),
              wkt |-> Wkt(LineString(<<NodeCoords(nodes_df, node_i),
                                       NodeCoords(nodes_df, node_j)>>)),
              edge_type |-> 2]]
    ELSE <<>>

\* longitudes of the nodes: some share a node id, some are within
\* THRESHOLD_KM of each other, some within DIST_THRESHOLD_KM only, some
\* farther apart
DownXs == {0, 1, 2, 4, 5, 9}

\* node tables as build_graph_and_csvs writes them: one row per distinct
\* coordinate
DownNodeTables ==
    {[k \in 1..2 |-> NodeRow(<<c[k], 0>>)] : c \in {d \in [1..2 -> DownXs] : d[1] # d[2]}}
    \cup {[k \in 1..3 |-> NodeRow(<<c[k], 0>>)] :
             c \in {d \in [1..3 -> DownXs] : d[1] # d[2] /\ d[1] # d[3] /\ d[2] # d[3]}}
    \cup {[k \in 1..4 |-> NodeRow(<<c[k], 0>>)] :
             c \in {d \in [1..4 -> DownXs] : d[1] < d[2] /\ d[2] < d[3] /\ d[3] < d[4]}}

\* the river edge from the node of row a to the node of row b
RiverRow(nodes_df, a, b, id) ==
    EdgeRow([river_name |-> "Indus",
             geometry |-> LineString(<<<<nodes_df[a].lon, nodes_df[a].lat>>,
                                       <<nodes_df[b].lon, nodes_df[b].lat>>>>)], id)

\* river edge tables over a node table, every node being an end of an edge:
\* one river, two rivers, edges with ids that neither start at 1 nor rise,
\* and two edges between the same nodes
DownEdgeTables(nodes_df) ==
    IF Len(nodes_df) = 2
    THEN {<<RiverRow(nodes_df, 1, 2, 1)>>,
          <<RiverRow(nodes_df, 2, 1, 3)>>,
          <<RiverRow(nodes_df, 1, 2, 5), RiverRow(nodes_df, 2, 1, 2)>>,
          <<RiverRow(nodes_df, 2, 1, 2), RiverRow(nodes_df, 2, 1, 4)>>}
    ELSE IF Len(nodes_df) = 3
    THEN {<<RiverRow(nodes_df, 1, 2, 1), RiverRow(nodes_df, 2, 3, 2)>>,
          <<RiverRow(nodes_df, 2, 1, 3), RiverRow(nodes_df, 3, 2, 4)>>,
          <<RiverRow(nodes_df, 1, 2, 5), RiverRow(nodes_df, 3, 1, 2)>>,
          <<RiverRow(nodes_df, 2, 1, 2), RiverRow(nodes_df, 2, 1, 4),
            RiverRow(nodes_df, 1, 3, 7)>>}
    ELSE {<<RiverRow(nodes_df, 1, 2, 1), RiverRow(nodes_df, 2, 3, 2),
            RiverRow(nodes_df, 3, 4, 3)>>,
          <<RiverRow(nodes_df, 1, 2, 1), RiverRow(nodes_df, 3, 4, 2)>>,
          <<RiverRow(nodes_df, 1, 2, 6), RiverRow(nodes_df, 4, 3, 3)>>}

\* the distinct node ids of a table, in the order of their first rows
RECURSIVE DistinctIds(_, _)
DistinctIds(nodes_df, k) ==
    IF k > Len(nodes_df) THEN <<>>
    ELSE (IF \E r \in 1..(k - 1) : nodes_df[r].node_id = nodes_df[k].node_id
          THEN <<>> ELSE <<nodes_df[k].node_id>>) \o DistinctIds(nodes_df, k + 1)

\* the columns of the correlation matrix: the nodes with features, one of
\* which may be missing from nodes.csv
DownColumns(nodes_df) ==
    {DistinctIds(nodes_df, 1), <<<<7, 7>>>> \o DistinctIds(nodes_df, 1)}

\* the pairs of columns with a correlation above CORR_THRESHOLD
DownCorr(cols) ==
    {{{cols[a], cols[b]} : a, b \in 1..Len(cols)} \ {{cols[a]} : a \in 1..Len(cols)},
     {{cols[1], cols[Len(cols)]}} \ {{cols[1]}},
     {}}

DownStartsEnhance ==
    {[DownIdle EXCEPT !.script = "enhance", !.pc = "load", !.files = "missing"]}
    \cup UNION {{[DownIdle EXCEPT !.script = "enhance", !.pc = "load",
                                 !.nodes_df = n, !.edges_df = e] :
                    e \in DownEdgeTables(n)} : n \in DownNodeTables}

DownStartsComplicated ==
    {[DownIdle EXCEPT !.script = "complicated", !.pc = "load", !.files = "missing"]}
    \cup UNION {UNION {{[DownIdle EXCEPT !.script = "complicated", !.pc = "load",
                                       !.nodes_df = n, !.edges_df = e,
                                       !.nodes_list = cols, !.corr = c] :
                          e \in DownEdgeTables(n), c \in DownCorr(cols)} :
                       cols \in DownColumns(n)} : n \in DownNodeTables}

\* the pair the loops go on to after the pair (i, j) of n entries
NextPair(i, j, n) == IF j < n THEN <<i, j + 1>> ELSE <<i + 1, i + 2>>

\* if not os.path.exists(INPUT_NODES) or not os.path.exists(INPUT_EDGES):
\* print the error and return
EnhMissing ==
    /\ down.script = "enhance"
    /\ down.pc = "load"
    /\ down.files = "missing"
    /\ down' = [down EXCEPT !.pc = "returned"]
    /\ UNCHANGED <<seg, snap, asm, expl, plan, rec, main, km>>

\* the tables are read; river_edges, existing_connections, new_edge_id_start
EnhLoad ==
    /\ down.script = "enhance"
    /\ down.pc = "load"
    /\ down.files = "ok"
    /\ down' = [down EXCEPT
                  !.pc = "pairs",
                  !.river_edges = [k \in 1..Len(down.edges_df) |->
                                      WithEdgeType(down.edges_df[k], 0)],
                  !.existing = Connections(down.edges_df),
                  !.next_id = MaxEdgeId(down.edges_df) + 1,
                  !.nodes_list = down.nodes_df]
    /\ UNCHANGED <<seg, snap, asm, expl, plan, rec, main, km>>

\* one pass of the inner loop: the pair nodes_list[i], nodes_list[j]
EnhPair ==
    /\ down.script = "enhance"
    /\ down.pc = "pairs"
    /\ down.j <= Len(down.nodes_list)
    /\ LET rows == SpatialPair(down.nodes_list[down.i], down.nodes_list[down.j],
                               down.existing, down.next_id + down.count)
       IN down' = [down EXCEPT
                     !.added = @ \o rows,
                     !.count = @ + Len(rows),
                     !.i = NextPair(down.i, down.j, Len(down.nodes_list))[1],
                     !.j = NextPair(down.i, down.j, Len(down.nodes_list))[2]]
    /\ UNCHANGED <<seg, snap, asm, expl, plan, rec, main, km>>

\* final_df = pd.concat([river_edges, spatial_df], ignore_index=True);
\* final_df.to_csv(OUTPUT_EDGES, index=False)
EnhSave ==
    /\ down.script = "enhance"
    /\ down.pc = "pairs"
    /\ down.j > Len(down.nodes_list)
    /\ down' = [down EXCEPT !.pc = "done", !.final_df = down.river_edges \o down.added,
                            !.written = TRUE]
    /\ UNCHANGED <<seg, snap, asm, expl, plan, rec, main, km>>

\* if not os.path.exists(FEATURES_PATH): print the error and return
CplxMissing ==
    /\ down.script = "complicated"
    /\ down.pc = "load"
    /\ down.files = "missing"
    /\ down' = [down EXCEPT !.pc = "returned"]
    /\ UNCHANGED <<seg, snap, asm, expl, plan, rec, main, km>>

\* the tables are read and the correlation matrix computed; river_edges,
\* existing_links, next_id
CplxLoad ==
    /\ down.script = "complicated"
    /\ down.pc = "load"
    /\ down.files = "ok"
    /\ down' = [down EXCEPT
                  !.pc = "pairs",
                  !.river_edges = [k \in 1..Len(down.edges_df) |->
                                      WithEdgeType(down.edges_df[k], 0)],
                  !.existing = Connections(down.edges_df),
                  !.next_id = MaxEdgeId(down.edges_df) + 1]
    /\ UNCHANGED <<seg, snap, asm, expl, plan, rec, main, km>>

\* one pass of the inner loop: the columns nodes_list[i], nodes_list[j];
\* a column that is not in node_coords is passed over
CplxPair ==
    /\ down.script = "complicated"
    /\ down.pc = "pairs"
    /\ down.j <= Len(down.nodes_list)
    /\ LET rows == IF /\ down.nodes_list[down.i] \in NodeKeys(down.nodes_df)
                      /\ down.nodes_list[down.j] \in NodeKeys(down.nodes_df)
                   THEN CorrelatedPair(down.nodes_list[down.i], down.nodes_list[down.j],
                                       down.nodes_df, down.corr, down.existing,
                                       down.next_id + down.count)
                   ELSE <<>>
       IN down' = [down EXCEPT
                     !.added = @ \o rows,
                     !.count = @ + Len(rows),
                     !.i = NextPair(down.i, down.j, Len(down.nodes_list))[1],
                     !.j = NextPair(down.i, down.j, Len(down.nodes_list))[2]]
    /\ UNCHANGED <<seg, snap, asm, expl, plan, rec, main, km>>

\* final_df = pd.concat([river_edges, complex_df]) or river_edges;
\* final_df.to_csv(OUTPUT_PATH, index=False)
CplxSave ==
    /\ down.script = "complicated"
    /\ down.pc = "pairs"
    /\ down.j > Len(down.nodes_list)
    /\ down' = [down EXCEPT !.pc = "done", !.final_df = down.river_edges \o down.added,
                            !.written = TRUE]
    /\ UNCHANGED <<seg, snap, asm, expl, plan, rec, main, km>>

(***************************************************************************)
(* update_spatial_edges.py                                                 *)
(***************************************************************************)
\* DataFrame.to_csv: a missing value (None, NaN) is written as an empty field
ToCsv(rows) ==
    [k \in 1..Len(rows) |->
        [rows[k] EXCEPT !.wkt = IF @ \in {NoneWkt, NaNWkt} THEN EmptyField ELSE @]]

\* pd.read_csv: an empty field is read as NaN
ReadCsv(rows) ==
    [k \in 1..Len(rows) |-> [rows[k] EXCEPT !.wkt = IF @ = EmptyField THEN NaNWkt ELSE @]]

\* isinstance(row['wkt'], str) and row['wkt'].startswith('LINESTRING')
IsLineStringText(wkt) == wkt[1] = "LineString"

get_geometryReversed(row, nodes_df) ==
    IF IsLineStringText(row.wkt) THEN row.wkt
    ELSE IF row.from_node_id \in NodeKeys(nodes_df) /\ row.to_node_id \in NodeKeys(nodes_df)
    THEN Wkt(LineString(<<NodeCoords(nodes_df, row.to_node_id),
                          NodeCoords(nodes_df, row.from_node_id)>>))
    ELSE NoneWkt

\* get_geometry(row), node_map being built from nodes_df
get_geometry(row, nodes_df) ==
    IF IsLineStringText(row.wkt) THEN row.wkt
    ELSE IF row.from_node_id \in NodeKeys(nodes_df) /\ row.to_node_id \in NodeKeys(nodes_df)
    THEN Wkt(LineString(<<NodeCoords(nodes_df, row.from_node_id),
                          NodeCoords(nodes_df, row.to_node_id)>>))
    ELSE NoneWkt

\* the spatial edges enhance_graph_connectivity appends from the pair (i, j)
\* on, id being the next edge id
RECURSIVE SpatialEdges(_, _, _, _, _)
SpatialEdges(nodes_list, existing, i, j, id) ==
    IF j > Len(nodes_list) THEN <<>>
    ELSE LET rows == SpatialPair(nodes_list[i], nodes_list[j], existing, id)
             nxt == NextPair(i, j, Len(nodes_list))
         IN rows \o SpatialEdges(nodes_list, existing, nxt[1], nxt[2], id + Len(rows))

\* edges_enhanced.csv as enhance_graph_connectivity writes it
EnhancedCsv(nodes_df, edges_df) ==
    ToCsv([k \in 1..Len(edges_df) |-> WithEdgeType(edges_df[k], 0)]
          \o SpatialEdges(nodes_df, Connections(edges_df), 1, 2, MaxEdgeId(edges_df) + 1))

\* rows of edges_enhanced.csv that enhance_graph_connectivity does not
\* write: an edge of a node that is not in nodes.csv, without and with a
\* geometry, and an edge whose wkt is not a LINESTRING text
UpdForeignRows(nodes_df) ==
    {<<>>,
     <<[edge_id |-> 20, from_node_id |-> <<7, 7>>, to_node_id |-> nodes_df[1].node_id,
        river_name |-> "Spatial_Link", length_km |-> 5, wkt |-> EmptyField, edge_type |-> 1]>>,
     <<[edge_id |-> 20, from_node_id |-> nodes_df[1].node_id, to_node_id |-> <<7, 7>>,
        river_name |-> "Indus", length_km |-> 5,
        wkt |-> Wkt(LineString(<<<<0, 0>>, <<3, 3>>, <<9, 0>>>>)), edge_type |-> 0]>>,
     <<[edge_id |-> 20, from_node_id |-> nodes_df[2].node_id, to_node_id |-> nodes_df[1].node_id,
        river_name |-> "Indus", length_km |-> 5,
        wkt |-> Wkt(Point(<<0, 0>>)), edge_type |-> 0]>>}

DownStartsUpdate ==
    {[DownIdle EXCEPT !.script = "update", !.pc = "load", !.files = "missing"]}
    \cup UNION {UNION {{[DownIdle EXCEPT !.script = "update", !.pc = "load", !.nodes_df = n,
                                       !.versions = <<f \o EnhancedCsv(n, e)>>] :
                          f \in UpdForeignRows(n)} :
                       e \in DownEdgeTables(n)} : n \in DownNodeTables}

\* the file edges_enhanced.csv
EdgesFile == down.versions[Len(down.versions)]

\* if not os.path.exists(NODES_PATH) or not os.path.exists(EDGES_PATH):
\* print the error and return
UpdMissing ==
    /\ down.script = "update"
    /\ down.pc = "load"
    /\ down.files = "missing"
    /\ down' = [down EXCEPT !.pc = "returned"]
    /\ UNCHANGED <<seg, snap, asm, expl, plan, rec, main, km>>

\* the tables are read, node_map is built, updated_count = 0
UpdLoad ==
    /\ down.script = "update"
    /\ down.pc = "load"
    /\ down.files = "ok"
    /\ down' = [down EXCEPT !.pc = "rows", !.edges_df = ReadCsv(EdgesFile), !.i = 1,
                            !.added = <<>>, !.updated_count = 0]
    /\ UNCHANGED <<seg, snap, asm, expl, plan, rec, main, km>>

\* edges_df.apply(get_geometry, axis=1): the call for one row
UpdRow ==
    /\ down.script = "update"
    /\ down.pc = "rows"
    /\ down.i <= Len(down.edges_df)
    /\ LET row == down.edges_df[down.i]
       IN down' = [down EXCEPT
                     !.added = Append(@, get_geometry(row, down.nodes_df)),
                     !.updated_count =
                         IF /\ ~IsLineStringText(row.wkt)
                            /\ row.from_node_id \in NodeKeys(down.nodes_df)
                            /\ row.to_node_id \in NodeKeys(down.nodes_df)
                         THEN @ + 1 ELSE @,
                     !.i = @ + 1]
    /\ UNCHANGED <<seg, snap, asm, expl, plan, rec, main, km>>

\* edges_df['wkt'] = ...; edges_df.to_csv(EDGES_PATH, index=False)
UpdSave ==
    /\ down.script = "update"
    /\ down.pc = "rows"
    /\ down.i > Len(down.edges_df)
    /\ LET final == [k \in 1..Len(down.edges_df) |->
                        [down.edges_df[k] EXCEPT !.wkt = down.added[k]]]
       IN down' = [down EXCEPT !.pc = "done", !.final_df = final,
                               !.versions = Append(@, ToCsv(final)),
                               !.written = TRUE, !.run = @ + 1]
    /\ UNCHANGED <<seg, snap, asm, expl, plan, rec, main, km>>

\* the script is run once more on the file it wrote
UpdAgain ==
    /\ down.script = "update"
    /\ down.pc = "done"
    /\ down.run < 2
    /\ down' = [down EXCEPT !.pc = "load"]
    /\ UNCHANGED <<seg, snap, asm, expl, plan, rec, main, km>>

DownInit ==
    /\ seg = SegIdle
    /\ snap = SnapIdle
    /\ asm = AsmIdle
    /\ expl = ExplIdle
    /\ plan = PlanIdle
    /\ rec = RecIdle
    /\ main = MainIdle
    /\ km = KmIdle
    /\ down \in DownStartsEnhance \cup DownStartsComplicated \cup DownStartsUpdate

DownNext ==
    \/ EnhMissing \/ EnhLoad \/ EnhPair \/ EnhSave
    \/ CplxMissing \/ CplxLoad \/ CplxPair \/ CplxSave
    \/ UpdMissing \/ UpdLoad \/ UpdRow \/ UpdSave \/ UpdAgain

SpecDown == DownInit /\ [][DownNext]_vars

(***************************************************************************)
(* Properties of segmentize_lines                                          *)
(***************************************************************************)
\* the positions of new_lines that were cut from input row k
SegsOf(k) == {j \in 1..Len(seg.new_lines) : seg.origin[j] = k}

\* the LineString rows the loop has already processed
SegProcessed ==
    {k \in 1..(seg.idx - 1) : k <= Len(seg.gdf) /\ seg.gdf[k].geometry.type = "LineString"}

SegT == IntervalDeg(seg.interval_km)

\* C1: a line of length L <= T yields exactly one segment, the input line
\* itself; a line of length L > T yields exactly ceil(L / T) segments, i.e.
\* the least n with n * T >= L.
C1_SegmentCount ==
    \A k \in SegProcessed :
        LET L == Length(seg.gdf[k].geometry)
            n == Cardinality(SegsOf(k))
        IN /\ L <= SegT =>
                /\ n = 1
                /\ \A j \in SegsOf(k) : seg.new_lines[j].geometry = seg.gdf[k].geometry
           /\ L > SegT => (n * SegT >= L /\ (n - 1) * SegT < L)

\* a line cut where L / T is no integer (L = 3 km, T = 2 km: 2 segments),
\* beside a line that is kept whole
C1_Witness ==
    /\ seg.pc = "done"
    /\ \E k \in SegProcessed :
          /\ Length(seg.gdf[k].geometry) > SegT
          /\ Length(seg.gdf[k].geometry) % SegT # 0
          /\ Cardinality(SegsOf(k)) = 2
    /\ \E k \in SegProcessed :
          /\ Length(seg.gdf[k].geometry) <= SegT
          /\ Cardinality(SegsOf(k)) = 1

\* the segments of row k in output order (positions are contiguous)
SegSeq(k) ==
    LET lo == CHOOSE j \in SegsOf(k) : \A i \in SegsOf(k) : j <= i
    IN [i \in 1..Cardinality(SegsOf(k)) |-> seg.new_lines[lo + i - 1].geometry]

\* vertex paths joined end to start: a junction vertex is taken once
RECURSIVE ConcatPaths(_)
ConcatPaths(geoms) ==
    IF geoms = <<>> THEN <<>>
    ELSE IF Len(geoms) = 1 THEN Coords(geoms[1])
    ELSE Coords(geoms[1]) \o Tail(ConcatPaths(Tail(geoms)))

Dir(p, q) == <<Sign(q[1] - p[1]), Sign(q[2] - p[2])>>

\* The shape of a vertex path: repeated vertices and vertices lying inside a
\* straight run are dropped, corners and turn-backs are kept.
RECURSIVE ShapeFrom(_, _, _)
ShapeFrom(path, k, acc) ==
    IF k > Len(path) THEN acc
    ELSE IF acc # <<>> /\ path[k] = acc[Len(acc)] THEN ShapeFrom(path, k + 1, acc)
    ELSE IF Len(acc) >= 2 /\ Dir(acc[Len(acc) - 1], acc[Len(acc)]) = Dir(acc[Len(acc)], path[k])
         THEN ShapeFrom(path, k + 1, [acc EXCEPT ![Len(acc)] = path[k]])
         ELSE ShapeFrom(path, k + 1, Append(acc, path[k]))

Shape(path) == ShapeFrom(path, 1, <<>>)

SnapProcessed == {i \in 1..Len(snap.targets) : HasCoords(snap.pre[i])}

\* C4: a relocated last vertex moves by at most the tolerance, and a line
\* whose last vertex is not relocated has no other line within the tolerance
\* (distance <= tolerance) of that vertex.
C4_SnapBound ==
    \A i \in SnapProcessed :
        /\ snap.targets[i] # 0 =>
              PointDistSq(EndPoint(snap.pre[i]), EndPoint(snap.new_geoms[i]))
                  <= snap.tolerance * snap.tolerance
        /\ snap.targets[i] = 0 =>
              \A j \in 1..Len(snap.pre) :
                  (j # i /\ HasCoords(snap.pre[j])) =>
                      DistSq(snap.pre[j], EndPoint(snap.pre[i]))
                          > snap.tolerance * snap.tolerance

\* C5: the snap target of a line is never the line itself, although the
\* index query around its endpoint returns the line, at distance 0.
C5_NoSelfSnap ==
    \A i \in SnapProcessed :
        /\ i \in PossibleMatches(snap.sindex, i, snap.tolerance)
        /\ DistSq(snap.pre[i], EndPoint(snap.pre[i])) = 0
        /\ snap.targets[i] # i

\* a line snapped onto another line that lies at a positive distance
C5_Witness ==
    /\ snap.pc = "done"
    /\ \E i \in SnapProcessed :
          /\ snap.targets[i] \notin {0, i}
          /\ DistSq(snap.pre[snap.targets[i]], EndPoint(snap.pre[i])) > 0
          /\ EndPoint(snap.lines_gdf[i]) # EndPoint(snap.pre[i])

\* the lines other than line i that have a geometry to measure against
OtherLines(i) == {j \in 1..Len(snap.pre) : j # i /\ HasCoords(snap.pre[j])}

\* the place of the line t in the candidate order
PlaceIn(order, t) == CHOOSE k \in 1..Len(order) : order[k] = t

\* C16: the target of a snapped endpoint is a line at the least distance
\* from the endpoint among all the other lines; whatever order the index
\* returns the candidates in, the target is the first candidate of that
\* order at the least distance; and the new last vertex is the point of the
\* target nearest to the old endpoint.
C16_NearestTarget ==
    \A i \in SnapProcessed :
        LET p == EndPoint(snap.pre[i])
            cands == PossibleMatches(snap.pre, i, snap.tolerance)
        IN /\ snap.targets[i] \in
                 {SnapRow(snap.pre, i, snap.tolerance, order).target : order \in Orderings(cands)}
           /\ snap.targets[i] # 0 =>
                 /\ snap.targets[i] \in OtherLines(i)
                 /\ \A j \in OtherLines(i) :
                       DistSq(snap.pre[snap.targets[i]], p) <= DistSq(snap.pre[j], p)
                 /\ DistSq(snap.pre[snap.targets[i]], EndPoint(snap.new_geoms[i])) = 0
                 /\ PointDistSq(p, EndPoint(snap.new_geoms[i]))
                        = DistSq(snap.pre[snap.targets[i]], p)
           /\ \A order \in Orderings(cands) :
                 LET t == SnapRow(snap.pre, i, snap.tolerance, order).target
                 IN t # 0 =>
                       \A k \in 1..Len(order) :
                           (order[k] # i /\ DistSq(snap.pre[order[k]], p) = DistSq(snap.pre[t], p))
                               => PlaceIn(order, t) <= k

\* an endpoint with two other lines at the same least, positive distance,
\* snapped onto the one that comes later in the collection
C16_Witness ==
    /\ snap.pc = "done"
    /\ \E i \in SnapProcessed :
          \E j \in OtherLines(i) :
              /\ snap.targets[i] \notin {0, j}
              /\ j < snap.targets[i]
              /\ DistSq(snap.pre[j], EndPoint(snap.pre[i])) > 0
              /\ DistSq(snap.pre[j], EndPoint(snap.pre[i]))
                     = DistSq(snap.pre[snap.targets[i]], EndPoint(snap.pre[i]))
              /\ EndPoint(snap.new_geoms[i]) # EndPoint(snap.pre[i])

\* all the vertices of a geometry but the last
Front(geom) == SubSeq(Coords(geom), 1, Len(Coords(geom)) - 1)

\* C17: the snapper keeps the number and the order of the lines and their
\* channel names; each line keeps its vertex count and all its vertices but
\* the last; a line without an endpoint, and a line with no other line
\* within the tolerance of its endpoint, keeps its geometry.
C17_SnapFrame ==
    /\ Len(snap.lines_gdf) = Len(snap.pre)
    /\ snap.river_name = SnapNames(Len(snap.pre))
    /\ \A i \in 1..Len(snap.new_geoms) :
          /\ ~HasCoords(snap.pre[i]) => snap.new_geoms[i] = snap.pre[i]
          /\ HasCoords(snap.pre[i]) =>
                /\ snap.new_geoms[i].type = snap.pre[i].type
                /\ Len(Coords(snap.new_geoms[i])) = Len(Coords(snap.pre[i]))
                /\ Front(snap.new_geoms[i]) = Front(snap.pre[i])
                /\ (\A j \in OtherLines(i) :
                        DistSq(snap.pre[j], EndPoint(snap.pre[i])) > snap.tolerance * snap.tolerance)
                       => snap.new_geoms[i] = snap.pre[i]
    /\ snap.pc = "done" => snap.lines_gdf = snap.new_geoms

\* a three-vertex line whose last vertex was relocated, returned between a
\* line and a row without geometry that came back as they were
C17_Witness ==
    /\ snap.pc = "done"
    /\ Len(snap.lines_gdf) = 3
    /\ \E i \in 1..Len(snap.pre) :
          /\ HasCoords(snap.pre[i])
          /\ Len(Coords(snap.pre[i])) = 3
          /\ EndPoint(snap.lines_gdf[i]) # EndPoint(snap.pre[i])
    /\ \E i \in 1..Len(snap.pre) : ~HasCoords(snap.pre[i])

\* C18: snap_endpoints leaves the collection passed to it unchanged: once
\* the call has returned, the caller's frame still has the geometries it had
\* before the call.
C18_StagePurity == snap.pc = "done" => snap.lines_gdf = snap.pre

OnLeg(p, a, b) ==
    /\ (b[1] - a[1]) * (p[2] - a[2]) = (b[2] - a[2]) * (p[1] - a[1])
    /\ Min(a[1], b[1]) <= p[1] /\ p[1] <= Max(a[1], b[1])
    /\ Min(a[2], b[2]) <= p[2] /\ p[2] <= Max(a[2], b[2])

\* p lies on the line geom
OnLine(p, geom) ==
    \E k \in 1..(Len(Coords(geom)) - 1) : OnLeg(p, Coords(geom)[k], Coords(geom)[k + 1])

\* C29: in the returned collection the endpoint of every snapped line lies
\* on the line it was snapped onto.
C29_SnappedEndOnTarget ==
    snap.pc = "done" =>
       \A i \in 1..Len(snap.lines_gdf) :
          snap.targets[i] # 0 =>
             OnLine(EndPoint(snap.lines_gdf[i]), snap.lines_gdf[snap.targets[i]])

(***************************************************************************)
(* Properties of build_graph_and_csvs                                      *)
(***************************************************************************)
\* the positions of the rows processed so far that are not skipped
AsmProcessed ==
    {k \in 1..(asm.idx - 1) : k <= Len(asm.lines_gdf) /\ ~Degenerate(asm.lines_gdf[k].geometry)}

\* the endpoints of the processed segments, in processing order
RECURSIVE EndpointsUpTo(_, _)
EndpointsUpTo(lines, k) ==
    IF k = 0 THEN <<>>
    ELSE EndpointsUpTo(lines, k - 1)
         \o (IF Degenerate(lines[k].geometry) THEN <<>>
             ELSE <<Coords(lines[k].geometry)[1], EndPoint(lines[k].geometry)>>)

AsmEndpoints == EndpointsUpTo(asm.lines_gdf, Min(asm.idx - 1, Len(asm.lines_gdf)))

\* the 0.00001-degree cell a coordinate rounds to
SameCell(p, q) ==
    \E cx, cy \in 0..(MaxCell + 1) :
        /\ 2 * SubQuant * cx - SubQuant <= 2 * p[1] /\ 2 * p[1] < 2 * SubQuant * cx + SubQuant
        /\ 2 * SubQuant * cx - SubQuant <= 2 * q[1] /\ 2 * q[1] < 2 * SubQuant * cx + SubQuant
        /\ 2 * SubQuant * cy - SubQuant <= 2 * p[2] /\ 2 * p[2] < 2 * SubQuant * cy + SubQuant
        /\ 2 * SubQuant * cy - SubQuant <= 2 * q[2] /\ 2 * q[2] < 2 * SubQuant * cy + SubQuant

\* C6: the node table has exactly one row per distinct quantized endpoint
\* coordinate: no two rows share a node_id (two endpoints that round to the
\* same key give one row), and the row keeps the first-seen position.
C6_NodeDedup ==
    /\ \A i, j \in 1..Len(asm.node_data) :
          asm.node_data[i].node_id = asm.node_data[j].node_id => i = j
    /\ \A i \in 1..Len(AsmEndpoints) :
          \E r \in 1..Len(asm.node_data) :
              LET first == SetMin({j \in 1..i : SameCell(AsmEndpoints[j], AsmEndpoints[i])})
              IN /\ SameCell(<<asm.node_data[r].lon, asm.node_data[r].lat>>, AsmEndpoints[i])
                 /\ <<asm.node_data[r].lon, asm.node_data[r].lat>> = AsmEndpoints[first]

\* the number of distinct quantized endpoint coordinates
AsmK ==
    Cardinality({SetMin({j \in 1..Len(AsmEndpoints) : SameCell(AsmEndpoints[j], AsmEndpoints[i])}) :
                    i \in 1..Len(AsmEndpoints)})

\* C7: with N segments of at least 2 vertices and K distinct quantized
\* endpoint coordinates, the graph object has exactly K nodes and exactly N
\* directed edges.
C7_GraphCardinality ==
    asm.pc = "done" =>
        /\ Cardinality(DOMAIN asm.G_nodes) = AsmK
        /\ Cardinality(DOMAIN asm.G_edges) = Cardinality(AsmProcessed)

\* the orders in which the rows of the input can reach the assembler
RowOrders(lines) ==
    {[k \in 1..Len(lines) |-> lines[f[k]]] : f \in Orderings(1..Len(lines))}

NodeIds(node_data) == {node_data[r].node_id : r \in 1..Len(node_data)}

\* for each edge row, the segment and the node ids given to its two ends
EndIds(edge_data) ==
    {<<edge_data[r].wkt, edge_data[r].river_name, edge_data[r].from_node_id,
       edge_data[r].to_node_id>> : r \in 1..Len(edge_data)}

\* C8: node ids do not depend on the order of the segments: for every
\* reordering of the same segments the assembler gives every endpoint the
\* same node_id and the node table holds the same set of node ids; and
\* endpoints in the same 5-decimal cell get the same node_id.
C8_NodeIdDeterminism ==
    asm.pc = "done" =>
        /\ \A lines \in RowOrders(asm.lines_gdf) :
              /\ NodeIds(AssembleFrom(AsmEmpty, lines, 1).node_data) = NodeIds(asm.node_data)
              /\ EndIds(AssembleFrom(AsmEmpty, lines, 1).edge_data) = EndIds(asm.edge_data)
        /\ \A a, b \in 1..Len(asm.edge_data) :
              LET ca == asm.edge_data[a].wkt[2]
                  cb == asm.edge_data[b].wkt[2]
              IN /\ SameCell(ca[1], cb[1]) =>
                       asm.edge_data[a].from_node_id = asm.edge_data[b].from_node_id
                 /\ SameCell(ca[1], cb[Len(cb)]) =>
                       asm.edge_data[a].from_node_id = asm.edge_data[b].to_node_id

\* two different segments, the later one starting in the cell where the
\* earlier one ends but at another coordinate
C8_Witness ==
    /\ asm.pc = "done"
    /\ Len(asm.edge_data) = 2
    /\ asm.edge_data[1].wkt # asm.edge_data[2].wkt
    /\ asm.edge_data[1].to_node_id = asm.edge_data[2].from_node_id
    /\ asm.edge_data[1].wkt[2][Len(asm.edge_data[1].wkt[2])] # asm.edge_data[2].wkt[2][1]
    /\ asm.edge_data[1].from_node_id # asm.edge_data[2].to_node_id

\* C9: every from_node_id and to_node_id of the edge table is the node_id of
\* a row of the node table, and a segment that starts and ends at the same
\* point gets its edge row (from_node_id = to_node_id) like any other.
C9_EdgeEndpointsExist ==
    /\ \A e \in 1..Len(asm.edge_data) :
          /\ asm.edge_data[e].from_node_id \in NodeIds(asm.node_data)
          /\ asm.edge_data[e].to_node_id \in NodeIds(asm.node_data)
    /\ \A k \in AsmProcessed :
          Coords(asm.lines_gdf[k].geometry)[1] = EndPoint(asm.lines_gdf[k].geometry) =>
              \E e \in 1..Len(asm.edge_data) :
                  /\ asm.edge_data[e].edge_id = k
                  /\ asm.edge_data[e].from_node_id = asm.edge_data[e].to_node_id

\* a self-loop segment after a segment that already brought its node
C9_Witness ==
    /\ asm.pc = "done"
    /\ \E e \in 2..Len(asm.edge_data) :
          /\ asm.edge_data[e].from_node_id = asm.edge_data[e].to_node_id
          /\ asm.edge_data[e].wkt[2][1] = asm.edge_data[e].wkt[2][Len(asm.edge_data[e].wkt[2])]
          /\ asm.edge_data[1].to_node_id = asm.edge_data[e].from_node_id
          /\ asm.edge_data[1].from_node_id # asm.edge_data[1].to_node_id

\* the position in lines_gdf of the e-th segment that is not skipped
NthProcessed(e) ==
    CHOOSE k \in AsmProcessed : Cardinality({j \in AsmProcessed : j <= k}) = e

\* the edge table has one row per processed segment of at least 2 vertices,
\* in segment order, and the edge ids are distinct and strictly increasing
EdgeRowsInOrder ==
    /\ asm.pc \in {"loop", "done"}
    /\ Len(asm.edge_data) = Cardinality(AsmProcessed)
    /\ \A e \in 1..Len(asm.edge_data) :
          /\ asm.edge_data[e].wkt = Wkt(asm.lines_gdf[NthProcessed(e)].geometry)
          /\ asm.edge_data[e].edge_id \in Nat
    /\ \A a, b \in 1..Len(asm.edge_data) :
          a < b => asm.edge_data[a].edge_id < asm.edge_data[b].edge_id

\* C12 as stated: one edge row per segment of at least 2 vertices, skipped
\* segments giving no row and no abort, edge ids distinct and strictly
\* increasing in segment order, the first edge id being 1.
C12_EdgeIdsFromOne ==
    /\ EdgeRowsInOrder
    /\ asm.edge_data # <<>> => asm.edge_data[1].edge_id = 1

\* C12, amended: as above, but the edge id of a row is the position of its
\* segment among all the input segments, skipped ones included: ids are at
\* least 1 and leave a gap wherever a segment was skipped.
C12_EdgeIds ==
    /\ EdgeRowsInOrder
    /\ \A e \in 1..Len(asm.edge_data) : asm.edge_data[e].edge_id = NthProcessed(e)

\* a skipped segment ahead of two segments that get the edge ids 2 and 3
C12_Witness ==
    /\ asm.pc = "done"
    /\ Len(asm.lines_gdf) = 3
    /\ Degenerate(asm.lines_gdf[1].geometry)
    /\ Len(asm.edge_data) = 2
    /\ asm.edge_data[1].edge_id = 2
    /\ asm.edge_data[2].edge_id = 3

\* C14: every row of the edge table has its directed edge in the graph
\* object, from the segment's first vertex to its last vertex, carrying the
\* row's edge_id, channel name, length_km and geometry.
C14_GraphMirrorsEdges ==
    \A e \in 1..Len(asm.edge_data) :
        LET u == asm.edge_data[e].wkt[2][1]
            v == asm.edge_data[e].wkt[2][Len(asm.edge_data[e].wkt[2])]
        IN /\ <<u, v>> \in DOMAIN asm.G_edges
           /\ asm.G_edges[<<u, v>>] =
                 [edge_id |-> asm.edge_data[e].edge_id,
                  name |-> asm.edge_data[e].river_name,
                  length_km |-> asm.edge_data[e].length_km,
                  wkt |-> asm.edge_data[e].wkt]

\* for each edge row, the segment and the edge id given to it
EdgeIds(edge_data) ==
    {<<edge_data[r].wkt, edge_data[r].river_name, edge_data[r].edge_id>> :
        r \in 1..Len(edge_data)}

\* C19: the edge id of a segment does not depend on the order in which the
\* segments reach the assembler: every reordering of the same segments gives
\* every segment the same edge_id.
C19_EdgeIdOrderIndependence ==
    asm.pc = "done" =>
        \A lines \in RowOrders(asm.lines_gdf) :
            EdgeIds(AssembleFrom(AsmEmpty, lines, 1).edge_data) = EdgeIds(asm.edge_data)

(***************************************************************************)
(* Properties of explode_multilinestrings                                  *)
(***************************************************************************)
\* the line parts of the frame: <<row, part>>
ExplInputParts ==
    UNION {{<<k, j>> : j \in 1..Len(expl.gdf[k].geometry.parts)} :
              k \in {i \in 1..Len(expl.gdf) :
                         expl.gdf[i].geometry.type \in {"LineString", "MultiLineString"}}}

\* how often the point p is a vertex of the coordinate sequence c
Occurrences(c, p) == Cardinality({i \in 1..Len(c) : c[i] = p})

RECURSIVE SumOver(_, _)
SumOver(S, f) ==
    IF S = {} THEN 0
    ELSE LET x == CHOOSE y \in S : TRUE IN f[x] + SumOver(S \ {x}, f)

ExplVertices ==
    UNION {{expl.gdf[kj[1]].geometry.parts[kj[2]][i] :
               i \in 1..Len(expl.gdf[kj[1]].geometry.parts[kj[2]])} : kj \in ExplInputParts}

\* every part of the claim but the absence of an error, once the call returned
ExplodeContract ==
    expl.pc = "done" =>
        /\ \A j \in 1..Len(expl.lines) : expl.lines[j].geometry.type = "LineString"
        /\ Len(expl.lines) = Cardinality(ExplInputParts)
        /\ \A p \in ExplVertices :
              SumOver(1..Len(expl.lines),
                      [j \in 1..Len(expl.lines) |-> Occurrences(Coords(expl.lines[j].geometry), p)])
              = SumOver(ExplInputParts,
                        [kj \in ExplInputParts |->
                            Occurrences(expl.gdf[kj[1]].geometry.parts[kj[2]], p)])
        /\ \A j \in 1..Len(expl.lines) :
              /\ expl.gdf[expl.origin[j]].geometry.type # "None"
              /\ expl.has_name_en =>
                    expl.lines[j].river_name = expl.gdf[expl.origin[j]].name_en
        /\ expl.gdf = <<>> => expl.lines = <<>>

\* C10: every output is a single LineString, there is one output per
\* LineString input and per part of a MultiLineString input, the vertices
\* are the same multiset, each output carries its feature's channel name,
\* null geometries are dropped, and an empty input gives an empty output
\* without an error.
C10_Explode ==
    /\ ExplodeContract
    /\ expl.gdf = <<>> => expl.pc # "raised"

(***************************************************************************)
(* Properties of planarize_lines                                           *)
(***************************************************************************)
\* the elementary edges of the input line i that meet at p
EdgesAt(i, p) == {e \in LineEdges(Coords(plan.lines_gdf[i])) : p \in e}

\* the input lines i and j cross at p: each runs on from p on two sides, and
\* they share no stretch at p
CrossAt(i, j, p) ==
    /\ Cardinality(EdgesAt(i, p)) >= 2
    /\ Cardinality(EdgesAt(j, p)) >= 2
    /\ EdgesAt(i, p) \cap EdgesAt(j, p) = {}

\* the point p lies on the output line k
PassesThrough(k, p) ==
    /\ plan.new_lines[k].type = "LineString"
    /\ DistSq(plan.new_lines[k], p) = 0

\* the point p is the first or the last vertex of the output line k
EndsAt(k, p) ==
    /\ plan.new_lines[k].type = "LineString"
    /\ p \in {Coords(plan.new_lines[k])[1], EndPoint(plan.new_lines[k])}

\* C11: where two input lines cross at a point P, every output line that
\* passes through P has P as its first or last vertex, and each of the two
\* input lines is continued from P by an output line that ends at P.
C11_Planarity ==
    plan.pc = "done" =>
        \A i, j \in LineworkOf(plan.lines_gdf) :
            \A p \in EdgePoints(plan.merged.edges) :
                (i # j /\ CrossAt(i, j, p)) =>
                    /\ \A k \in 1..Len(plan.new_lines) : PassesThrough(k, p) => EndsAt(k, p)
                    /\ \A x \in {i, j} :
                          \E k \in 1..Len(plan.new_lines) :
                              /\ EndsAt(k, p)
                              /\ LineEdges(Coords(plan.new_lines[k])) \cap EdgesAt(x, p) # {}

\* two lines crossing at a point that is a vertex of neither: four output
\* lines end there
C11_Witness ==
    /\ plan.pc = "done"
    /\ \E i, j \in LineworkOf(plan.lines_gdf) :
          \E p \in EdgePoints(plan.merged.edges) :
              /\ i # j
              /\ CrossAt(i, j, p)
              /\ p \notin InputVertices(plan.lines_gdf)
              /\ Cardinality({k \in 1..Len(plan.new_lines) : EndsAt(k, p)}) = 4

(***************************************************************************)
(* Properties of the attribute recovery                                    *)
(***************************************************************************)
\* the rows of the join that belong to the left row i, in join order
JoinedOf(i) == SelectSeq(rec.joined, LAMBDA r : r.index = i)

\* C15: after the join and the removal of duplicates every planarized line
\* appears exactly once, in place and with its geometry; a line covered by
\* several features carries the channel name of its first match in join
\* order; a line covered by no feature is kept with a missing channel name.
C15_AttributeRecovery ==
    rec.pc = "done" =>
        /\ Len(rec.result) = Len(rec.planarized)
        /\ \A i \in 1..Len(rec.planarized) :
              /\ rec.result[i].geometry = rec.planarized[i]
              /\ {JoinedOf(i)[k].index_right : k \in 1..Len(JoinedOf(i))}
                     \in {Matches(rec.planarized[i], rec.gdf), {NaN}}
              /\ Matches(rec.planarized[i], rec.gdf) # {} =>
                    rec.result[i].river_name = rec.gdf[JoinedOf(i)[1].index_right].name_en
              /\ Matches(rec.planarized[i], rec.gdf) = {} => rec.result[i].river_name = NaN

\* a line covered by two features of different names, the later feature
\* coming first in join order, beside a line no feature covers
C15_Witness ==
    /\ rec.pc = "done"
    /\ \E i \in 1..Len(rec.planarized) :
          /\ Cardinality(Matches(rec.planarized[i], rec.gdf)) = 2
          /\ JoinedOf(i)[1].index_right > JoinedOf(i)[2].index_right
          /\ JoinedOf(i)[1].name_en # JoinedOf(i)[2].name_en
    /\ \E i \in 1..Len(rec.planarized) : Matches(rec.planarized[i], rec.gdf) = {}

(***************************************************************************)
(* Properties of the main pipeline                                         *)
(***************************************************************************)
\* C13: when the input file does not exist or cannot be read, the run does
\* nothing but abort: it leaves the first stage only into an aborted state
\* with a diagnostic and a failure status, it never succeeds, and no output
\* artifact is ever written.
C13_MissingInput ==
    main.file \in {"missing", "unreadable"} =>
        /\ main.written = {}
        /\ main.status # "success"
        /\ main.pc \in {"load", "exited", "raised"}
        /\ main.pc # "load" => (main.diagnostic /\ main.status = "failure")
        /\ main.gdf = <<>>

\* the run on a missing file has exited with its error message
C13_Witness ==
    /\ main.file = "missing"
    /\ main.pc = "exited"
    /\ main.diagnostic
    /\ main.status = "failure"
    /\ main.written = {}

\* the stage sequence the claim states
PipelineOrder ==
    <<"load", "explode", "snap", "planarize", "recover", "segment", "assemble", "save">>

\* C20: the stages run in the order load, explode, snap, planarize,
\* attribute recovery, segment, assemble, save, none of them twice; a stage
\* starts only when all the stages before it have returned; a run that
\* reaches its end has run each stage exactly once; and no artifact is
\* written before the assembler has returned its output for the segments.
C20_PipelineOrder ==
    /\ Len(main.trace) <= Len(PipelineOrder)
    /\ main.trace = SubSeq(PipelineOrder, 1, Len(main.trace))
    /\ \A k \in 1..Len(PipelineOrder) :
          main.pc = PipelineOrder[k] => main.trace = SubSeq(PipelineOrder, 1, k - 1)
    /\ main.pc = "done" => (main.trace = PipelineOrder /\ main.written = Artifacts)
    /\ main.written # {} =>
          /\ Len(main.trace) >= 7
          /\ main.trace[7] = "assemble"
          /\ main.graph = AssembleFrom(AsmEmpty, InCells(main.segmented), 1)
          /\ main.segmented # <<>>

\* a finished run in which an endpoint was snapped and a line was cut
C20_Witness ==
    /\ main.pc = "done"
    /\ main.status = "success"
    /\ main.trace = PipelineOrder
    /\ main.written = Artifacts
    /\ GeometryOf(main.snapped) # GeometryOf(ExplodeFrom(main.gdf, main.has_name_en, 1))
    /\ Len(main.segmented) > Len(main.planarized)

\* the geometry is not a line: it has no linework
NotALine(geom) == geom.type # "LineString" \/ Len(Coords(geom)) < 2

\* C22: when the planarizer returns a geometry that is not a line (the
\* union was empty), the segmenter returns no segment for it, the assembler
\* no node and no edge, and the run goes on to its end: it stops with an
\* exception at no stage from the segmenter on.
C22_DegenerateUnion ==
    (/\ Len(main.trace) >= 4
     /\ \E k \in 1..Len(main.planarized) : NotALine(main.planarized[k]))
    => /\ main.pc = "raised" => main.trace[Len(main.trace)] \notin {"segment", "assemble", "save"}
       /\ main.segmented = <<>>
       /\ main.graph.node_data = <<>>
       /\ main.graph.edge_data = <<>>
       /\ main.graph.G_nodes = <<>>
       /\ main.graph.G_edges = <<>>

KmSegments == IF km.num_segments = 0 THEN 1 ELSE km.num_segments

AddedRows == SubSeq(down.final_df, Len(down.edges_df) + 1, Len(down.final_df))

\* C24: in the merged table of enhance_graph_connectivity every row of the
\* river edge table stands at its place with edge_type 0 and its other
\* columns as they were, and every row after them has edge_type 1; in the
\* merged table of build_complicated_edges the river rows have edge_type 0
\* and the rows after them edge_type 2.
C24_EdgeTypes ==
    (down.script \in {"enhance", "complicated"} /\ down.pc = "done") =>
       /\ Len(down.final_df) >= Len(down.edges_df)
       /\ \A k \in 1..Len(down.edges_df) :
             /\ down.final_df[k].edge_type = 0
             /\ down.final_df[k].edge_id = down.edges_df[k].edge_id
             /\ down.final_df[k].from_node_id = down.edges_df[k].from_node_id
             /\ down.final_df[k].to_node_id = down.edges_df[k].to_node_id
             /\ down.final_df[k].river_name = down.edges_df[k].river_name
             /\ down.final_df[k].length_km = down.edges_df[k].length_km
             /\ down.final_df[k].wkt = down.edges_df[k].wkt
       /\ \A k \in 1..Len(AddedRows) :
             AddedRows[k].edge_type = IF down.script = "enhance" THEN 1 ELSE 2

\* merged tables of both scripts to which rows were added
C24_Witness ==
    /\ down.pc = "done"
    /\ down.script = "complicated"
    /\ Len(down.edges_df) >= 2
    /\ Len(AddedRows) >= 4

\* the pairs of rows of the node table that the loops have passed
PairsDone ==
    {p \in (1..Len(down.nodes_df)) \X (1..Len(down.nodes_df)) :
        /\ p[1] < p[2]
        /\ \/ p[1] < down.i
           \/ p[1] = down.i /\ p[2] < down.j}

\* the distance between the nodes of rows a and b of the node table
RowDist(a, b) ==
    haversine(<<down.nodes_df[a].lon, down.nodes_df[a].lat>>,
              <<down.nodes_df[b].lon, down.nodes_df[b].lat>>)

\* (A, B) or (B, A) is a river edge, A and B being the nodes of rows a and b
RiverLinked(a, b) ==
    \E k \in 1..Len(down.edges_df) :
       \/ /\ down.edges_df[k].from_node_id = down.nodes_df[a].node_id
          /\ down.edges_df[k].to_node_id = down.nodes_df[b].node_id
       \/ /\ down.edges_df[k].from_node_id = down.nodes_df[b].node_id
          /\ down.edges_df[k].to_node_id = down.nodes_df[a].node_id

\* the pairs of rows the loops have passed that are to be linked
Linked == {p \in PairsDone : RowDist(p[1], p[2]) < THRESHOLD_KM /\ ~RiverLinked(p[1], p[2])}

\* rows k and k + 1 of the added rows are the edges A -> B and B -> A of the
\* nodes of rows a and b
IsPairAt(k, a, b) ==
    /\ k + 1 <= Len(down.added)
    /\ down.added[k].from_node_id = down.nodes_df[a].node_id
    /\ down.added[k].to_node_id = down.nodes_df[b].node_id
    /\ down.added[k + 1].from_node_id = down.nodes_df[b].node_id
    /\ down.added[k + 1].to_node_id = down.nodes_df[a].node_id
    /\ down.added[k].length_km = RowDist(a, b)
    /\ down.added[k + 1].length_km = RowDist(a, b)

\* C25: enhance_graph_connectivity adds spatial edges for a pair of nodes A,
\* B exactly when their distance is below 50 km and neither (A, B) nor
\* (B, A) is a river edge; the edges are added as the pair A -> B, B -> A
\* with equal length_km, so the reverse of every spatial edge is present and
\* no spatial edge repeats a river link in either direction.
C25_SpatialPairs ==
    (down.script = "enhance" /\ down.pc \in {"pairs", "done"}) =>
       /\ Len(down.added) = 2 * Cardinality(Linked)
       /\ \A p \in Linked :
             \E k \in 1..Len(down.added) : k % 2 = 1 /\ IsPairAt(k, p[1], p[2])
       /\ \A k \in 1..Len(down.added) :
             /\ k % 2 = 1 => \E p \in Linked : IsPairAt(k, p[1], p[2])
             /\ \E m \in 1..Len(down.added) :
                   /\ down.added[m].from_node_id = down.added[k].to_node_id
                   /\ down.added[m].to_node_id = down.added[k].from_node_id
                   /\ down.added[m].length_km = down.added[k].length_km
             /\ \A e \in 1..Len(down.edges_df) :
                   /\ <<down.edges_df[e].from_node_id, down.edges_df[e].to_node_id>>
                         # <<down.added[k].from_node_id, down.added[k].to_node_id>>
                   /\ <<down.edges_df[e].from_node_id, down.edges_df[e].to_node_id>>
                         # <<down.added[k].to_node_id, down.added[k].from_node_id>>

\* a finished run that linked one pair, passed over a pair that is too far
\* apart and passed over a pair that a river edge links
C25_Witness ==
    /\ down.script = "enhance"
    /\ down.pc = "done"
    /\ Linked # {}
    /\ \E p \in PairsDone : RowDist(p[1], p[2]) >= THRESHOLD_KM /\ ~RiverLinked(p[1], p[2])
    /\ \E p \in PairsDone : RowDist(p[1], p[2]) < THRESHOLD_KM /\ RiverLinked(p[1], p[2])

\* C26: in the merged tables of enhance_graph_connectivity and of
\* build_complicated_edges the ids of the added edges are the consecutive
\* integers from (largest river edge_id) + 1 on, so the edge ids of the
\* merged table are pairwise distinct when those of the river edges are.
C26_AddedIds ==
    (down.script \in {"enhance", "complicated"} /\ down.pc \in {"pairs", "done"}) =>
       /\ \A k \in 1..Len(down.added) :
             down.added[k].edge_id = MaxEdgeId(down.edges_df) + k
       /\ (down.pc = "done"
            /\ \A a, b \in 1..Len(down.edges_df) :
                  a # b => down.edges_df[a].edge_id # down.edges_df[b].edge_id)
           => \A a, b \in 1..Len(down.final_df) :
                 a # b => down.final_df[a].edge_id # down.final_df[b].edge_id

\* a merged table with added rows whose river ids do not end at the number
\* of river edges
C26_Witness ==
    /\ down.pc = "done"
    /\ down.script = "enhance"
    /\ Len(down.added) >= 4
    /\ MaxEdgeId(down.edges_df) > Len(down.edges_df)
    /\ down.final_df[Len(down.final_df)].edge_id = MaxEdgeId(down.edges_df) + Len(down.added)

\* C30: every spatial edge of enhance_graph_connectivity joins two node ids
\* of the node table that differ (no spatial edge from a node to itself),
\* also when the node table has two rows with the same node id.
C30_NoSpatialSelfLoop ==
    down.script = "enhance" =>
       \A k \in 1..Len(down.added) :
          /\ down.added[k].from_node_id \in NodeKeys(down.nodes_df)
          /\ down.added[k].to_node_id \in NodeKeys(down.nodes_df)
          /\ down.added[k].from_node_id # down.added[k].to_node_id

\* a node table has a row for the node id at the point
HasRowAt(id, point) ==
    \E r \in 1..Len(down.nodes_df) :
       /\ down.nodes_df[r].node_id = id
       /\ <<down.nodes_df[r].lon, down.nodes_df[r].lat>> = point

\* what one run of update_spatial_edges may make of the file before
UpdatedFrom(before, after) ==
    /\ Len(after) = Len(before)
    /\ \A k \in 1..Len(before) :
          /\ after[k].edge_id = before[k].edge_id
          /\ after[k].from_node_id = before[k].from_node_id
          /\ after[k].to_node_id = before[k].to_node_id
          /\ after[k].river_name = before[k].river_name
          /\ after[k].length_km = before[k].length_km
          /\ after[k].edge_type = before[k].edge_type
          /\ IsLineStringText(before[k].wkt) => after[k].wkt = before[k].wkt
          /\ (/\ ~IsLineStringText(before[k].wkt)
              /\ before[k].from_node_id \in NodeKeys(down.nodes_df)
              /\ before[k].to_node_id \in NodeKeys(down.nodes_df))
             => /\ IsLineStringText(after[k].wkt)
                /\ Len(after[k].wkt[2]) = 2
                /\ HasRowAt(before[k].from_node_id, after[k].wkt[2][1])
                /\ HasRowAt(before[k].to_node_id, after[k].wkt[2][2])

\* C27: update_spatial_edges keeps the wkt of every row that has a
\* LINESTRING text, gives every other row whose two node ids are in the
\* node table the 2-point line from its from-node to its to-node, keeps the
\* number and order of the rows and all other columns, and a second run
\* leaves the file as the first run wrote it.
C27_UpdateGeometries ==
    down.script = "update" =>
       /\ \A r \in 1..(Len(down.versions) - 1) :
             UpdatedFrom(down.versions[r], down.versions[r + 1])
       /\ Len(down.versions) = 3 => down.versions[3] = down.versions[2]

\* the file after a second run, the first run having filled in a geometry,
\* kept a river geometry and found an edge whose node is not in the table
C27_Witness ==
    /\ down.script = "update"
    /\ Len(down.versions) = 3
    /\ \E k \in 1..Len(down.versions[1]) :
          down.versions[1][k].wkt = EmptyField /\ IsLineStringText(down.versions[2][k].wkt)
    /\ \E k \in 1..Len(down.versions[1]) :
          /\ IsLineStringText(down.versions[1][k].wkt)
          /\ down.versions[1][k].edge_type = 0
    /\ \E k \in 1..Len(down.versions[1]) :
          down.versions[1][k].wkt = EmptyField /\ down.versions[2][k].wkt = EmptyField

====
